---- MODULE Spec2Model ----
(***************************************************************************)
(* Model of scripts/parse-garmin.js: the Garmin export import pipeline.    *)
(* One run of main() is a sequential program; its steps are the actions    *)
(* below, and the remote activities table and the local cache file are the *)
(* state that outlives a run.  The web application that reads the table    *)
(* follows: the endpoint /api/activities, the component ActivityTable and  *)
(* the session gate updateSession.                                         *)
(***************************************************************************)
EXTENDS Integers, Sequences, FiniteSets, TLC

(***************************************************************************)
(* Bounds of the model.                                                    *)
(* CHUNK_SIZE is 500 in the source (parse-garmin.js:56); the model runs    *)
(* the same loop with a small chunk so that several batches occur within   *)
(* the record counts TLC can enumerate.  MaxCols is the number of columns  *)
(* of the table whose menu entries and headers are operated; MaxApiCalls,  *)
(* MaxRequests and MaxGateRequests bound the requests of a behaviour,      *)
(* MaxPending the events handled between two renders, MaxWidth the width   *)
(* a column is dragged to.                                                 *)
(***************************************************************************)
CHUNK_SIZE == 2
MaxRaw == 3
MaxFileLen == 2
MaxBatchRaw == 5
MaxRuns == 2
MaxFieldRaw == 1
MaxCols == 2
MaxApiCalls == 1
MaxRequests == 2
MaxPending == 2
MaxWidth == 110
MaxGateRequests == 2

\* SOURCE_FILES has three entries.
NumFiles == 3

(***************************************************************************)
(* JavaScript values.                                                      *)
(* A number is n/d (d a power of ten).  The kinds of a value are           *)
(*   "absent"  undefined or null                                           *)
(*   "nan"     a value for which isNaN() is true: NaN, and in an export    *)
(*             (JSON has no NaN) a non-numeric string such as "n/a"        *)
(*   "blank"   the empty string: Number("") is 0, so isNaN("") is false    *)
(*   "inf"     Infinity, which JSON.parse gives for a literal beyond the   *)
(*             range of a double such as 1e999                             *)
(*   "num"     a finite number                                             *)
(* A timestamp is kept as whole seconds s and milliseconds ms (0..999),    *)
(* its value being s*1000+ms, because epoch milliseconds exceed 32-bit    *)
(* integers; "huge" is a number beyond the range of a Date                 *)
(* (|v| > 8.64e15, for instance 1e17).                                     *)
(***************************************************************************)
Null == [k |-> "absent", n |-> 0, d |-> 1]
NaNv == [k |-> "nan", n |-> 0, d |-> 1]
Blank == [k |-> "blank", n |-> 0, d |-> 1]
Inf == [k |-> "inf", n |-> 0, d |-> 1]
Num(n) == [k |-> "num", n |-> n, d |-> 1]
Ratio(n, d) == [k |-> "num", n |-> n, d |-> d]

NoTime == [k |-> "absent", s |-> 0, ms |-> 0]
NaNTime == [k |-> "nan", s |-> 0, ms |-> 0]
BlankTime == [k |-> "blank", s |-> 0, ms |-> 0]
InfTime == [k |-> "inf", s |-> 0, ms |-> 0]
HugeTime == [k |-> "huge", s |-> 0, ms |-> 0]
Time(s, ms) == [k |-> "num", s |-> s, ms |-> ms]

IsMissing_nullOnly(v) == v.k = "absent"

\* The guard of every helper: v == null || isNaN(v).
IsMissing(v) == v.k = "absent" \/ v.k = "nan"

\* Math.round of n/d: floor(x + 1/2).  The empty string counts as 0.
MathRound(v) == (2 * v.n + v.d) \div (2 * v.d)

\* Arithmetic on Infinity gives Infinity.
Finite(v, r) == IF v.k = "inf" THEN Inf ELSE r

\* cmToM: Math.round(v) / 100.
cmToM(v) ==
    IF IsMissing(v) THEN Null ELSE Finite(v, Ratio(MathRound(v), 100))

\* msToSec: Math.round(v / 1000).
msToSec(v) ==
    IF IsMissing(v)
    THEN Null
    ELSE Finite(v, Num(MathRound(Ratio(v.n, v.d * 1000))))

\* The speed rounded to 2 decimals: Math.round(v * 36 * 100) / 100.
cmPerMsToKmh_2decimals(v) ==
    IF IsMissing(v)
    THEN Null
    ELSE Finite(v, Ratio(MathRound(Ratio(v.n * 3600, v.d)), 100))

\* cmPerMsToKmh: Math.round(v * 36) / 1.
cmPerMsToKmh(v) ==
    IF IsMissing(v)
    THEN Null
    ELSE Finite(v, Num(MathRound(Ratio(v.n * 36, v.d))))

\* Math.pow(10, decimals).
RECURSIVE Pow10(_)
Pow10(decimals) == IF decimals = 0 THEN 1 ELSE 10 * Pow10(decimals - 1)

\* round: Math.round(v * factor) / factor.
round(v, decimals) ==
    IF IsMissing(v)
    THEN Null
    ELSE LET factor == Pow10(decimals)
         IN  Finite(v, Ratio(MathRound(Ratio(v.n * factor, v.d)), factor))

\* The raw value handed on without a conversion.
toInt_asIs(v) == IF v.k = "absent" THEN Null ELSE v

\* toInt: Math.round(v).
toInt(v) == IF IsMissing(v) THEN Null ELSE Finite(v, Num(MathRound(v)))

\* v || null: null for a falsy value (undefined, null, "", 0).
OrNull(v) ==
    IF v.k \in {"absent", "blank"} \/ (v.k = "num" /\ v.n = 0)
    THEN Null
    ELSE v

\* v ?? null: null for undefined and null, any other value unchanged.
Coalesce(v) == IF v.k = "absent" THEN Null ELSE v

(***************************************************************************)
(* msToDate: new Date(ms).toISOString().slice(0, 10).                      *)
(* The UTC calendar date of the day that holds the instant; the date       *)
(* string YYYY-MM-DD is kept as <<year, month, day>> and a null date as    *)
(* the empty tuple.  toISOString throws a RangeError on an invalid Date.   *)
(***************************************************************************)
SecPerDay == 86400

CivilFromDays(z0) ==
    LET z == z0 + 719468
        era == z \div 146097
        doe == z - era * 146097
        yoe == (doe - doe \div 1460 + doe \div 36524 - doe \div 146096) \div 365
        doy == doe - (365 * yoe + yoe \div 4 - yoe \div 100)
        mp == (5 * doy + 2) \div 153
        dd == doy - (153 * mp + 2) \div 5 + 1
        mm == IF mp < 10 THEN mp + 3 ELSE mp - 9
        yy == yoe + era * 400 + (IF mm <= 2 THEN 1 ELSE 0)
    IN  <<yy, mm, dd>>

NullDate == <<>>

\* new Date(ms) is an invalid Date for a number out of range, for Infinity
\* and for the empty string; toISOString throws a RangeError on it.
msToDateThrows(ms) == ms.k \in {"huge", "inf", "blank"}

\* The calendar date of a clock nine hours behind UTC.
msToDate_localTime(ms) ==
    IF IsMissing(ms)
    THEN NullDate
    ELSE CivilFromDays((ms.s - 9 * 3600) \div SecPerDay)

msToDate(ms) ==
    IF IsMissing(ms) THEN NullDate ELSE CivilFromDays(ms.s \div SecPerDay)

\* a < b on two date strings of the form YYYY-MM-DD (4-digit years); a
\* comparison with a missing date is false.
DateLess(a, b) ==
    /\ a # NullDate
    /\ b # NullDate
    /\ \/ a[1] < b[1]
       \/ a[1] = b[1] /\ a[2] < b[2]
       \/ a[1] = b[1] /\ a[2] = b[2] /\ a[3] < b[3]

(***************************************************************************)
(* normalize(raw): null (here NoActivity) when the date is missing.        *)
(***************************************************************************)
NoActivity == [id |-> 0, date |-> NullDate, distance_m |-> Null]

normalizeThrows(raw) == msToDateThrows(raw.beginTimestamp)

\* raw.field: undefined when the record has no such key.
Get(raw, field) == IF field \in DOMAIN raw THEN raw[field] ELSE Null

normalize(raw) ==
    LET date == msToDate(raw.beginTimestamp)
    IN  IF date = NullDate
        THEN NoActivity
        ELSE [id |-> raw.activityId,
              date |-> date,
              name |-> OrNull(Get(raw, "name")),
              activity_type |-> OrNull(Get(raw, "activityType")),
              duration_sec |-> msToSec(Get(raw, "duration")),
              distance_m |-> cmToM(Get(raw, "distance")),
              elevation_gain_m |-> cmToM(Get(raw, "elevationGain")),
              avg_speed_kmh |-> cmPerMsToKmh(Get(raw, "avgSpeed")),
              avg_hr |-> toInt(Get(raw, "avgHr")),
              max_hr |-> toInt(Get(raw, "maxHr")),
              calories |-> toInt(Get(raw, "calories")),
              avg_power |-> toInt(Get(raw, "avgPower")),
              tss |-> round(Get(raw, "trainingStressScore"), 1),
              avg_temperature |-> round(Get(raw, "avgTemperature"), 1),
              min_temperature |-> round(Get(raw, "minTemperature"), 1),
              max_temperature |-> round(Get(raw, "maxTemperature"), 1),
              start_lat |-> Coalesce(Get(raw, "startLatitude")),
              start_lon |-> Coalesce(Get(raw, "startLongitude")),
              location_name |-> OrNull(Get(raw, "locationName")),
              description |-> OrNull(Get(raw, "description"))]

IsNoActivity_never(a) == FALSE

\* if (!activity) in the loop of step 3.
IsNoActivity(a) == a = NoActivity

(***************************************************************************)
(* Step 2 of main: deduplicate by activityId, keeping the first            *)
(* occurrence (the loop over allRaw with the Set seen).                    *)
(***************************************************************************)
RECURSIVE DedupeFrom(_, _, _, _)
DedupeFrom(all, j, seen, unique) ==
    IF j > Len(all)
    THEN unique
    ELSE IF all[j].activityId \in seen
         THEN DedupeFrom(all, j + 1, seen, unique)
         ELSE DedupeFrom(all, j + 1, seen \cup {all[j].activityId},
                         Append(unique, all[j]))

\* Every record is kept.
Dedupe_none(all) == all

\* The record kept for an id is its last occurrence.
Dedupe_keepLast(all) ==
    LET first == DedupeFrom(all, 1, {}, <<>>)
        LastOf(id) ==
            all[CHOOSE j \in DOMAIN all :
                    /\ all[j].activityId = id
                    /\ \A h \in DOMAIN all :
                          all[h].activityId = id => h <= j]
    IN  [j \in DOMAIN first |-> LastOf(first[j].activityId)]

Dedupe(all) == DedupeFrom(all, 1, {}, <<>>)

(***************************************************************************)
(* Step 3 of main: the normalize loop.  It stops at the first record on    *)
(* which normalize throws; the exception leaves main.                      *)
(***************************************************************************)
RECURSIVE NormalizeFrom(_, _, _)
NormalizeFrom(uniq, j, acc) ==
    IF j > Len(uniq)
    THEN acc
    ELSE IF normalizeThrows(uniq[j])
         THEN [acc EXCEPT !.threw = TRUE]
         ELSE LET activity == normalize(uniq[j])
              IN  IF IsNoActivity(activity)
                  THEN NormalizeFrom(uniq, j + 1,
                           [acc EXCEPT !.skipped = @ + 1,
                                       !.skipLog = Append(@, uniq[j].activityId)])
                  ELSE NormalizeFrom(uniq, j + 1,
                           [acc EXCEPT !.normalized = Append(@, activity)])

NormalizeAll(uniq) ==
    NormalizeFrom(uniq, 1,
        [normalized |-> <<>>, skipped |-> 0, skipLog |-> <<>>, threw |-> FALSE])

(***************************************************************************)
(* normalized.sort((a, b) => (a.date < b.date ? 1 : -1)).                  *)
(* The comparator never returns 0, so the order of records with equal      *)
(* dates is the one the engine's algorithm gives.  Below is V8's           *)
(* Array.prototype.sort for arrays shorter than 64 elements: the first     *)
(* run is counted (and reversed when it is strictly descending under the   *)
(* comparator), the rest is inserted by binary insertion.                  *)
(***************************************************************************)
\* The comparator with its two results exchanged.
Compare_oldestFirst(a, b) == IF DateLess(a.date, b.date) THEN 0 - 1 ELSE 1

Compare(a, b) == IF DateLess(a.date, b.date) THEN 1 ELSE 0 - 1

Reverse(s) == [j \in 1..Len(s) |-> s[Len(s) + 1 - j]]

RECURSIVE RunEnd(_, _, _)
RunEnd(a, isDescending, idx) ==
    IF idx > Len(a)
    THEN idx - 1
    ELSE LET order == Compare(a[idx], a[idx - 1])
         IN  IF (isDescending /\ order >= 0) \/ (~isDescending /\ order < 0)
             THEN idx - 1
             ELSE RunEnd(a, isDescending, idx + 1)

RECURSIVE BinarySearch(_, _, _, _)
BinarySearch(a, pivot, left, right) ==
    IF left >= right
    THEN left
    ELSE LET mid == left + ((right - left) \div 2)
         IN  IF Compare(pivot, a[mid]) < 0
             THEN BinarySearch(a, pivot, left, mid)
             ELSE BinarySearch(a, pivot, mid + 1, right)

RECURSIVE BinaryInsertionSort(_, _)
BinaryInsertionSort(a, start) ==
    IF start > Len(a)
    THEN a
    ELSE LET pivot == a[start]
             left == BinarySearch(a, pivot, 1, start)
             moved == SubSeq(a, 1, left - 1) \o <<pivot>>
                        \o SubSeq(a, left, start - 1)
                        \o SubSeq(a, start + 1, Len(a))
         IN  BinaryInsertionSort(moved, start + 1)

SortNewestFirst(a) ==
    IF Len(a) < 2
    THEN a
    ELSE LET isDescending == Compare(a[2], a[1]) < 0
             runLength == RunEnd(a, isDescending, 3)
             run == IF isDescending
                    THEN Reverse(SubSeq(a, 1, runLength))
                         \o SubSeq(a, runLength + 1, Len(a))
                    ELSE a
         IN  BinaryInsertionSort(run, runLength + 1)

(***************************************************************************)
(* The remote activities table: a set of rows with primary key id.         *)
(* supabase.from('activities').upsert(batch, {onConflict: 'id'}) is one    *)
(* statement: a row of the batch replaces the stored row with its id or is *)
(* inserted; a call that returns an error has written nothing.             *)
(***************************************************************************)
Range(s) == {s[j] : j \in 1..Len(s)}

Min(a, b) == IF a < b THEN a ELSE b

Ids(rows) == {r.id : r \in rows}

\* ignoreDuplicates: a batch row whose id is stored is not written.
Upsert_ignoreDuplicates(tbl, batch) ==
    tbl \cup {b \in Range(batch) : b.id \notin Ids(tbl)}

\* Every call replaces the content of the table.
Upsert_replaceTable(tbl, batch) == Range(batch)

\* A null of a batch row leaves the stored value of the column.
Upsert_mergeNonNull(tbl, batch) ==
    {r \in tbl : r.id \notin Ids(Range(batch))}
        \cup { IF b.id \in Ids(tbl)
               THEN LET old == CHOOSE r \in tbl : r.id = b.id
                    IN  [c \in DOMAIN b |->
                            IF c \notin {"id", "date"} /\ b[c] = Null
                            THEN old[c]
                            ELSE b[c]]
               ELSE b : b \in Range(batch) }

\* A stored row with the id of a batch row is deleted and not written again.
Upsert_dropConflicts(tbl, batch) ==
    {r \in tbl : r.id \notin Ids(Range(batch))}
        \cup {b \in Range(batch) : b.id \notin Ids(tbl)}

Upsert(tbl, batch) ==
    {r \in tbl : r.id \notin Ids(Range(batch))} \cup Range(batch)

\* The end index taken as inclusive.
Slice_inclusive(s, from, to) ==
    SubSeq(s, from + 1, IF to + 1 < Len(s) THEN to + 1 ELSE Len(s))

\* normalized.slice(i, i + CHUNK_SIZE), i counted from 0.
Slice(s, from, to) ==
    SubSeq(s, from + 1, IF to < Len(s) THEN to ELSE Len(s))

(***************************************************************************)
(* The read endpoint, app/api/activities/route.ts.                         *)
(* A text is kept as the tuple of its characters, a date string as above   *)
(* (the empty tuple for ''), and the search parameters of a request as a   *)
(* record that has a field for each parameter the URL carries.             *)
(***************************************************************************)
Str(chars) == [k |-> "str", n |-> 0, d |-> 1, s |-> chars]

\* searchParams.get(name) ?? fallback.
ParamOr(params, name, fallback) ==
    IF name \in DOMAIN params THEN params[name] ELSE fallback

SORTABLE ==
    <<"date", "distance_m", "elevation_gain_m", "duration_sec",
      "avg_hr", "calories", "avg_power", "tss",
      "avg_temperature", "min_temperature", "max_temperature">>

\* The requested column handed to the store as it is.
OrderColumn_asRequested(sortBy) == sortBy

\* SORTABLE.includes(sortBy) ? sortBy : 'date'.
OrderColumn(sortBy) ==
    IF sortBy \in Range(SORTABLE) THEN sortBy ELSE "date"

\* The columns named in select(...): all but start_lat and start_lon.
Select(r) ==
    [id |-> r.id, date |-> r.date, name |-> r.name,
     activity_type |-> r.activity_type, duration_sec |-> r.duration_sec,
     distance_m |-> r.distance_m, elevation_gain_m |-> r.elevation_gain_m,
     avg_speed_kmh |-> r.avg_speed_kmh, avg_hr |-> r.avg_hr,
     max_hr |-> r.max_hr, calories |-> r.calories,
     avg_power |-> r.avg_power, tss |-> r.tss,
     avg_temperature |-> r.avg_temperature,
     min_temperature |-> r.min_temperature,
     max_temperature |-> r.max_temperature,
     location_name |-> r.location_name, description |-> r.description]

\* ilike: the letters of both sides compared without regard to case.
LowerOf ==
    [A |-> "a", B |-> "b", C |-> "c", D |-> "d", E |-> "e", F |-> "f",
     G |-> "g", H |-> "h", I |-> "i", J |-> "j", K |-> "k", L |-> "l",
     M |-> "m", N |-> "n", O |-> "o", P |-> "p", Q |-> "q", R |-> "r",
     S |-> "s", T |-> "t", U |-> "u", V |-> "v", W |-> "w", X |-> "x",
     Y |-> "y", Z |-> "z"]

Lower(chars) ==
    [j \in 1..Len(chars) |->
        IF chars[j] \in DOMAIN LowerOf THEN LowerOf[chars[j]] ELSE chars[j]]

\* column.ilike.%search%: the column is a text that contains the term.
ILike(v, term) ==
    /\ v.k = "str"
    /\ \E from \in 1..(Len(v.s) - Len(term) + 1) :
          Lower(SubSeq(v.s, from, from + Len(term) - 1)) = Lower(term)

\* The or(...) filter over name, location_name, activity_type, description.
MatchesSearch(r, term) ==
    \/ ILike(r.name, term)
    \/ ILike(r.location_name, term)
    \/ ILike(r.activity_type, term)
    \/ ILike(r.description, term)

\* a <= b on two date strings.
DateLeq(a, b) == a = b \/ DateLess(a, b)

\* The rows the query keeps: if (search) ..., if (dateFrom) ..., if (dateTo).
Filtered(tbl, search, dateFrom, dateTo) ==
    {r \in tbl :
        /\ search # <<>> => MatchesSearch(r, search)
        /\ dateFrom # NullDate => DateLeq(dateFrom, r.date)
        /\ dateTo # NullDate => DateLeq(r.date, dateTo)}

\* x < y on two values of a sortable column (a date or a number).
ValueLess(x, y, column) ==
    IF column = "date"
    THEN DateLess(x, y)
    ELSE x.k = "num" /\ y.k = "num" /\ x.n * y.d < y.n * x.d

IsNullValue(x, column) == column # "date" /\ x.k = "absent"

\* ORDER BY column ASC or DESC: the row a may not stand after the row b.
\* Nulls sort as the largest value (last ascending, first descending).
MustPrecede(a, b, column, ascending) ==
    LET x == a[column]
        y == b[column]
        less == \/ ~IsNullValue(x, column) /\ IsNullValue(y, column)
                \/ /\ ~IsNullValue(x, column)
                   /\ ~IsNullValue(y, column)
                   /\ ValueLess(x, y, column)
        greater == \/ IsNullValue(x, column) /\ ~IsNullValue(y, column)
                   \/ /\ ~IsNullValue(x, column)
                      /\ ~IsNullValue(y, column)
                      /\ ValueLess(y, x, column)
    IN  IF ascending THEN less ELSE greater

IsOrdered(rows, column, ascending) ==
    \A a, b \in DOMAIN rows :
        a < b => ~MustPrecede(rows[b], rows[a], column, ascending)

\* The results the store may give for the query: the selected columns of the
\* rows kept, in an order that follows the column; rows that are equal in
\* the column stand in any order.
QueryResults(tbl, column, ascending, search, dateFrom, dateTo) ==
    LET kept == {Select(r) : r \in Filtered(tbl, search, dateFrom, dateTo)}
        n == Cardinality(kept)
    IN  {rows \in [1..n -> kept] :
            /\ \A a, b \in 1..n : a # b => rows[a] # rows[b]
            /\ IsOrdered(rows, column, ascending)}

\* GET(req) up to the query it builds: the column, the direction and the
\* filters taken from the search parameters.
QueryOf(params) ==
    [column |-> OrderColumn(ParamOr(params, "sortBy", "date")),
     ascending |-> ParamOr(params, "sortDir", "") = "asc",
     search |-> ParamOr(params, "search", <<>>),
     dateFrom |-> ParamOr(params, "dateFrom", NullDate),
     dateTo |-> ParamOr(params, "dateTo", NullDate)]

(***************************************************************************)
(* The activity table of the web application (the component ActivityTable  *)
(* with multi-select).  Of a column definition the model keeps the id,     *)
(* the sort key and the two widths; a column without a sort key has ''.    *)
(***************************************************************************)
NoSortKey == ""

ColumnDef(id, sortKey, defaultWidth, minWidth) ==
    [id |-> id, sortKey |-> sortKey, defaultWidth |-> defaultWidth,
     minWidth |-> minWidth]

COLUMN_DEFS ==
    <<ColumnDef("date", "date", 100, 70),
      ColumnDef("name", "name", 180, 80),
      ColumnDef("activity_type", NoSortKey, 110, 60),
      ColumnDef("distance_m", "distance_m", 90, 60),
      ColumnDef("elevation_gain_m", "elevation_gain_m", 90, 60),
      ColumnDef("duration_sec", "duration_sec", 90, 60),
      ColumnDef("avg_hr", "avg_hr", 80, 55),
      ColumnDef("avg_power", "avg_power", 80, 55),
      ColumnDef("avg_temperature", "avg_temperature", 75, 55),
      ColumnDef("min_temperature", "min_temperature", 75, 55),
      ColumnDef("max_temperature", "max_temperature", 75, 55),
      ColumnDef("location_name", NoSortKey, 140, 60)>>

\* COLUMN_DEFS.find((d) => d.id === id).
DefOf(id) == COLUMN_DEFS[CHOOSE c \in DOMAIN COLUMN_DEFS : COLUMN_DEFS[c].id = id]

\* defaultColumnConfigs(): every column visible, in the order of COLUMN_DEFS.
defaultColumnConfigs ==
    [c \in DOMAIN COLUMN_DEFS |->
        [id |-> COLUMN_DEFS[c].id, visible |-> TRUE,
         width |-> COLUMN_DEFS[c].defaultWidth, order |-> c - 1]]

\* The columns whose menu entry, header and resize handle the user works
\* with: the first MaxCols of COLUMN_DEFS.
MenuColumns == {COLUMN_DEFS[c].id : c \in 1..MaxCols}

\* loadColumnConfigs() when an earlier session left a layout in localStorage
\* in which the other columns are hidden.
savedColumnConfigs ==
    [c \in DOMAIN COLUMN_DEFS |->
        [defaultColumnConfigs[c] EXCEPT
            !.visible = COLUMN_DEFS[c].id \in MenuColumns]]

\* [...cols].sort((a, b) => a.order - b.order); the orders are distinct.
ByOrder(cols) ==
    [p \in 1..Len(cols) |->
        cols[CHOOSE c \in DOMAIN cols :
                Cardinality({e \in DOMAIN cols : cols[e].order < cols[c].order})
                    = p - 1]]

\* visibleColumns: the definitions of the visible columns, by order.
visibleColumns(cols) ==
    LET shown == SelectSeq(ByOrder(cols), LAMBDA c : c.visible)
    IN  [p \in DOMAIN shown |-> DefOf(shown[p].id)]

\* columns.filter((c) => c.visible).length.
visibleCount(cols) == Cardinality({c \in DOMAIN cols : cols[c].visible})

(***************************************************************************)
(* State.                                                                  *)
(*   files         the export directory: for each entry of SOURCE_FILES    *)
(*                 whether the file is missing, is not valid JSON, or      *)
(*                 holds an array of raw activities                        *)
(*   url, key      SUPABASE_URL and SUPABASE_SERVICE_KEY are set           *)
(*   table         the remote activities table                             *)
(*   cache         the content of data/activities.json                     *)
(*   cacheWritten  the current run has written the cache file              *)
(*   pc            the position of main() in the current run               *)
(*   allRaw, unique, normalized, skipped, i, inserted                      *)
(*                 the locals of main()                                    *)
(*   skipLog       the activity ids of the SKIP warnings of the run        *)
(*   calls         the upsert calls of the run, each with its batch and    *)
(*                 its state: pending, ok or error                         *)
(*   runNo         the number of the current run                           *)
(*   tableAtStart  the table as the current run found it                   *)
(*   history       the earlier runs: how each ended (done, failed or       *)
(*                 fatal) and the table before and after it                *)
(*   log           the warnings, errors and closing messages the run       *)
(*                 printed (the SKIP warnings are in skipLog)              *)
(*   peer          a second process running the script at the same time:   *)
(*                 its position and the locals of its upsert loop          *)
(* The web application:                                                    *)
(*   requests      the requests sent to /api/activities, in the order they *)
(*                 were sent: the search parameters, the query the         *)
(*                 endpoint issued and its response, and whether the       *)
(*                 response has reached the caller                         *)
(*   activities, loading, error, search, dateFrom, dateTo, sort,           *)
(*   selectedIds, focusedIndex, columns, showColMenu, dragColId            *)
(*                 the state of the component ActivityTable (useState);    *)
(*                 focusedIndex is <<>> for null and <<n>> for the index n *)
(*   resizeRef     resizeRef.current: the column being resized and its     *)
(*                 width at the start, or <<>> for null                    *)
(*   timer         the debounce timer of the fetch effect is pending       *)
(*   rendered      what the last render of the component saw of columns    *)
(*                 and dragColId: the values its event handlers hold       *)
(*   batched       the number of column events handled since that render   *)
(*   exchanges     the requests the session gate has handled, each with    *)
(*                 the response it gave                                    *)
(***************************************************************************)
VARIABLES files, url, key, table, cache, cacheWritten, pc, allRaw, unique,
          normalized, skipped, skipLog, i, inserted, calls, runNo,
          tableAtStart, history, log, peer,
          requests, activities, loading, error, search, dateFrom, dateTo,
          sort, selectedIds, focusedIndex, columns, showColMenu, dragColId,
          resizeRef, timer, rendered, batched, exchanges

\* The state of the import script and of the store.
import == <<files, url, key, table, cache, cacheWritten, pc, allRaw, unique,
            normalized, skipped, skipLog, i, inserted, calls, runNo,
            tableAtStart, history, log, peer>>

\* The state of the web application.
browser == <<requests, activities, loading, error, search, dateFrom, dateTo,
             sort, selectedIds, focusedIndex, columns, showColMenu,
             dragColId, resizeRef, timer, rendered, batched, exchanges>>

vars == <<import, browser>>

locals == <<allRaw, unique, normalized, skipped, skipLog, i, inserted, calls>>

(***************************************************************************)
(* Inputs.                                                                 *)
(***************************************************************************)
\* 1970-01-02T00:00:00.000Z and 1969-12-31T23:59:59.999Z.
NewTime == Time(86400, 0)
OldTime == Time(0 - 1, 999)
SampleTimes == {NewTime, OldTime}

\* The values of beginTimestamp in exports with unusable timestamps.
TsValues == {NoTime, NaNTime, HugeTime, NewTime}

\* Activity ids are named in the order of their first appearance.
FirstUseOrder(ids) ==
    \A j \in DOMAIN ids :
        ids[j] <= 1 + Cardinality({ids[h] : h \in 1..(j - 1)})

\* The raw activity at position j of the merged export: of the optional
\* fields it has a distance (in centimeters), which differs from position to
\* position.
RawActivity(id, ts, j) ==
    [activityId |-> id, beginTimestamp |-> ts, distance |-> Num(150 * j)]

\* A record with one more field, or with another value of a field it has.
WithField(raw, field, v) ==
    [c \in DOMAIN raw \cup {field} |-> IF c = field THEN v ELSE raw[c]]

\* A row of the activities table with the given values, its other columns
\* null.
Row(id, date, distance_m, avg_hr, start_lat) ==
    [id |-> id, date |-> date,
     name |-> Null, activity_type |-> Null, duration_sec |-> Null,
     distance_m |-> distance_m, elevation_gain_m |-> Null,
     avg_speed_kmh |-> Null, avg_hr |-> avg_hr, max_hr |-> Null,
     calories |-> Null, avg_power |-> Null, tss |-> Null,
     avg_temperature |-> Null, min_temperature |-> Null,
     max_temperature |-> Null, start_lat |-> start_lat, start_lon |-> Null,
     location_name |-> Null, description |-> Null]

\* Rows left in the table by earlier imports: an old version of activity 1
\* (without a distance, with a heart rate and a latitude) and an activity
\* that the export no longer holds.
StaleRows ==
    { Row(1, <<1999, 12, 31>>, Null, Num(140), Ratio(473, 10)),
      Row(99, <<2001, 2, 3>>, Ratio(777, 100), Null, Null) }

\* A line of the console output.
Line(msg, n) == [msg |-> msg, n |-> n]

\* The second process before it is started.
NotStarted == [pc |-> "idle", normalized |-> <<>>, i |-> 0, calls |-> <<>>]

NoError == ""
NoFocus == <<>>
NoColumn == ""
NoResize == <<>>

\* The component after its first render: the initial values of useState,
\* the layout that loadColumnConfigs() returned, and the timer that the
\* fetch effect has set.
InitView(layout) ==
    /\ requests = <<>>
    /\ activities = <<>>
    /\ loading = TRUE
    /\ error = NoError
    /\ search = <<>>
    /\ dateFrom = NullDate
    /\ dateTo = NullDate
    /\ sort = [key |-> "date", dir |-> "desc"]
    /\ selectedIds = {}
    /\ focusedIndex = NoFocus
    /\ columns = layout
    /\ showColMenu = FALSE
    /\ dragColId = NoColumn
    /\ resizeRef = NoResize
    /\ timer = TRUE
    /\ rendered = [columns |-> layout, dragColId |-> NoColumn]
    /\ batched = 0
    /\ exchanges = <<>>

\* The script at the start of main().
InitMain ==
    /\ pc = "read"
    /\ allRaw = <<>>
    /\ unique = <<>>
    /\ normalized = <<>>
    /\ skipped = 0
    /\ skipLog = <<>>
    /\ i = 0
    /\ inserted = 0
    /\ calls = <<>>
    /\ cacheWritten = FALSE
    /\ runNo = 1
    /\ history = <<>>
    /\ log = <<>>
    /\ peer = NotStarted

InitRun == InitMain /\ InitView(defaultColumnConfigs)

InitFiles(maxRaw, tsValues, maxDup) ==
    \E L \in 0..maxRaw :
      \E ids \in [1..L -> 1..L] :
        /\ FirstUseOrder(ids)
        /\ L - Cardinality({ids[j] : j \in 1..L}) <= maxDup
        /\ \E ts \in [1..L -> tsValues] :
             \E c1 \in 0..L :
               \E c2 \in c1..L :
                 /\ c1 <= MaxFileLen
                 /\ c2 - c1 <= MaxFileLen
                 /\ L - c2 <= MaxFileLen
                 /\ LET merged == [j \in 1..L |-> RawActivity(ids[j], ts[j], j)]
                        part == <<SubSeq(merged, 1, c1),
                                  SubSeq(merged, c1 + 1, c2),
                                  SubSeq(merged, c2 + 1, L)>>
                    IN  \E kinds \in [1..NumFiles -> {"missing", "malformed", "ok"}] :
                          /\ \A f \in 1..NumFiles :
                               part[f] # <<>> => kinds[f] = "ok"
                          /\ files = [f \in 1..NumFiles |->
                                        [kind |-> kinds[f], recs |-> part[f]]]

Init ==
    /\ InitFiles(MaxRaw, TsValues, MaxRaw)
    /\ url \in BOOLEAN
    /\ key \in BOOLEAN
    /\ table = StaleRows
    /\ tableAtStart = table
    /\ cache = <<>>
    /\ InitRun

(***************************************************************************)
(* Step 1 of main: read and merge the source files.  A missing file is     *)
(* skipped with a warning; JSON.parse throws on a malformed one.           *)
(***************************************************************************)
FileExists_always(file) == TRUE

\* fs.existsSync(filepath).
FileExists(file) == file.kind # "missing"

ReadThrows_never(file) == FALSE

\* JSON.parse(fs.readFileSync(filepath, 'utf8')) throws: readFileSync when
\* there is no file, JSON.parse when the text is not valid JSON.
ReadThrows(file) == file.kind # "ok"

RECURSIVE ReadFrom(_, _, _)
ReadFrom(fs, f, acc) ==
    IF f > Len(fs)
    THEN acc
    ELSE IF ~FileExists(fs[f])
         THEN ReadFrom(fs, f + 1,
                  [acc EXCEPT !.out = Append(@, Line("warn-not-found", f))])
         ELSE IF ReadThrows(fs[f])
              THEN [acc EXCEPT !.threw = TRUE]
              ELSE ReadFrom(fs, f + 1, [acc EXCEPT !.allRaw = @ \o fs[f].recs])

ReadAll(fs) ==
    ReadFrom(fs, 1, [allRaw |-> <<>>, out |-> <<>>, threw |-> FALSE])

\* main().catch: the error is printed and the process exits with 1.
Caught(out, threw) == IF threw THEN Append(out, Line("fatal", 0)) ELSE out

ReadFiles ==
    /\ pc = "read"
    /\ LET r == ReadAll(files)
       IN  /\ allRaw' = r.allRaw
           /\ log' = Caught(log \o r.out, r.threw)
           /\ pc' = IF r.threw THEN "fatal" ELSE "dedup"
    /\ UNCHANGED <<browser, files, url, key, table, cache, cacheWritten, unique,
                   normalized, skipped, skipLog, i, inserted, calls, runNo,
                   tableAtStart, history, peer>>

Deduplicate ==
    /\ pc = "dedup"
    /\ unique' = Dedupe(allRaw)
    /\ pc' = "normalize"
    /\ UNCHANGED <<browser, files, url, key, table, cache, cacheWritten, allRaw,
                   normalized, skipped, skipLog, i, inserted, calls, runNo,
                   tableAtStart, history, log, peer>>

Normalize ==
    /\ pc = "normalize"
    /\ LET r == NormalizeAll(unique)
       IN  /\ normalized' = r.normalized
           /\ skipped' = r.skipped
           /\ skipLog' = r.skipLog
           /\ log' = Caught(log, r.threw)
           /\ pc' = IF r.threw THEN "fatal" ELSE "sort"
    /\ UNCHANGED <<browser, files, url, key, table, cache, cacheWritten, allRaw,
                   unique, i, inserted, calls, runNo, tableAtStart, history,
                   peer>>

AfterSort_noCache == "seed"

\* The statement after the sort is the write of the cache file (step 4).
AfterSort == "write"

Sort ==
    /\ pc = "sort"
    /\ normalized' = SortNewestFirst(normalized)
    /\ pc' = AfterSort
    /\ UNCHANGED <<browser, files, url, key, table, cache, cacheWritten, allRaw,
                   unique, skipped, skipLog, i, inserted, calls, runNo,
                   tableAtStart, history, log, peer>>

\* JSON.stringify writes a number that is not finite as null.
JsonValue(v) == IF v.k = "inf" THEN Null ELSE v

\* The id and the date are written as they are.
JsonRow(r) ==
    [r EXCEPT !.name = JsonValue(@), !.activity_type = JsonValue(@),
              !.duration_sec = JsonValue(@), !.distance_m = JsonValue(@),
              !.elevation_gain_m = JsonValue(@), !.avg_speed_kmh = JsonValue(@),
              !.avg_hr = JsonValue(@), !.max_hr = JsonValue(@),
              !.calories = JsonValue(@), !.avg_power = JsonValue(@),
              !.tss = JsonValue(@), !.avg_temperature = JsonValue(@),
              !.min_temperature = JsonValue(@), !.max_temperature = JsonValue(@),
              !.start_lat = JsonValue(@), !.start_lon = JsonValue(@),
              !.location_name = JsonValue(@), !.description = JsonValue(@)]

RECURSIVE JsonStringify(_)
JsonStringify(rows) ==
    IF rows = <<>>
    THEN <<>>
    ELSE <<JsonRow(Head(rows))>> \o JsonStringify(Tail(rows))

\* Step 4: fs.writeFileSync(OUTPUT_FILE, JSON.stringify(normalized)).
WriteCache ==
    /\ pc = "write"
    /\ cache' = JsonStringify(normalized)
    /\ cacheWritten' = TRUE
    /\ pc' = "seed"
    /\ UNCHANGED <<browser, files, url, key, table, allRaw, unique, normalized,
                   skipped, skipLog, i, inserted, calls, runNo, tableAtStart,
                   history, log, peer>>

SeedingDisabled_both == ~url /\ ~key

\* if (!SUPABASE_URL || !SUPABASE_SERVICE_KEY).
SeedingDisabled == ~url \/ ~key

\* Step 6: without SUPABASE_URL or SUPABASE_SERVICE_KEY main returns.
SeedSkip ==
    /\ pc = "seed"
    /\ SeedingDisabled
    /\ log' = Append(log, Line("skipping-seed", 0))
    /\ pc' = "done"
    /\ UNCHANGED <<browser, files, url, key, table, cache, cacheWritten, locals,
                   runNo, tableAtStart, history, peer>>

SeedStart ==
    /\ pc = "seed"
    /\ ~SeedingDisabled
    /\ inserted' = 0
    /\ i' = 0
    /\ pc' = "loop"
    /\ UNCHANGED <<browser, files, url, key, table, cache, cacheWritten, allRaw,
                   unique, normalized, skipped, skipLog, calls, runNo,
                   tableAtStart, history, log, peer>>

(***************************************************************************)
(* The upsert loop.  A call is issued at the head of the loop and main     *)
(* awaits its result before it goes on.                                    *)
(***************************************************************************)
Pending == {c \in DOMAIN calls : calls[c].state = "pending"}

AtLoopHead_noAwait == pc \in {"loop", "await"}

\* The loop body starts when the awaited call of the previous one returned.
AtLoopHead == pc = "loop"

UpsertCall ==
    /\ AtLoopHead
    /\ i < Len(normalized)
    /\ calls' = Append(calls, [batch |-> Slice(normalized, i, i + CHUNK_SIZE),
                               state |-> "pending"])
    /\ pc' = "await"
    /\ UNCHANGED <<browser, files, url, key, table, cache, cacheWritten, allRaw,
                   unique, normalized, skipped, skipLog, i, inserted, runNo,
                   tableAtStart, history, log, peer>>

\* What the loop does after a call that returned no error.
AfterOk == "loop"

AfterError_retry == "loop"

\* What the loop does after a call that returned an error: process.exit(1).
AfterError == "failed"

TableAfterError_rollback(tbl, atStart) == atStart

\* The table after a call that returned an error: nothing is undone.
TableAfterError(tbl, atStart) == tbl

UpsertOk ==
    /\ pc = "await"
    /\ \E c \in Pending :
         /\ table' = Upsert(table, JsonStringify(calls[c].batch))
         /\ calls' = [calls EXCEPT ![c].state = "ok"]
         /\ inserted' = inserted + Len(calls[c].batch)
    /\ i' = i + CHUNK_SIZE
    /\ pc' = AfterOk
    /\ UNCHANGED <<browser, files, url, key, cache, cacheWritten, allRaw, unique,
                   normalized, skipped, skipLog, runNo, tableAtStart, history,
                   log, peer>>

UpsertError ==
    /\ pc = "await"
    /\ \E c \in Pending :
         calls' = [calls EXCEPT ![c].state = "error"]
    /\ table' = TableAfterError(table, tableAtStart)
    /\ log' = Append(log, Line("error-on-chunk", i \div CHUNK_SIZE + 1))
    /\ pc' = AfterError
    /\ UNCHANGED <<browser, files, url, key, cache, cacheWritten, allRaw, unique,
                   normalized, skipped, skipLog, i, inserted, runNo,
                   tableAtStart, history, peer>>

Finish ==
    /\ AtLoopHead
    /\ i >= Len(normalized)
    /\ log' = Append(log, Line("seeded", inserted))
    /\ pc' = "done"
    /\ UNCHANGED <<browser, files, url, key, table, cache, cacheWritten, locals,
                   runNo, tableAtStart, history, peer>>

Exited == pc \in {"done", "failed", "fatal"}

ExitCode == IF pc = "done" THEN 0 ELSE 1

Next ==
    \/ ReadFiles
    \/ Deduplicate
    \/ Normalize
    \/ Sort
    \/ WriteCache
    \/ SeedSkip
    \/ SeedStart
    \/ UpsertCall
    \/ UpsertOk
    \/ UpsertError
    \/ Finish

Spec == Init /\ [][Next]_vars

(***************************************************************************)
(* Larger exports of activities with usable timestamps and at most one     *)
(* repeated id, so that a run submits up to three batches.                 *)
(***************************************************************************)
InitBatches ==
    /\ InitFiles(MaxBatchRaw, SampleTimes, 1)
    /\ url \in BOOLEAN
    /\ key \in BOOLEAN
    /\ table = StaleRows
    /\ tableAtStart = table
    /\ cache = <<>>
    /\ InitRun

SpecBatches == InitBatches /\ [][Next]_vars

(***************************************************************************)
(* The script run again: a new process over the same export directory,     *)
(* environment, cache file and table.                                      *)
(***************************************************************************)
NextRun ==
    /\ Exited
    /\ runNo < MaxRuns
    /\ history' = Append(history, [end |-> pc, before |-> tableAtStart,
                                    after |-> table])
    /\ runNo' = runNo + 1
    /\ tableAtStart' = table
    /\ pc' = "read"
    /\ allRaw' = <<>>
    /\ unique' = <<>>
    /\ normalized' = <<>>
    /\ skipped' = 0
    /\ skipLog' = <<>>
    /\ i' = 0
    /\ inserted' = 0
    /\ calls' = <<>>
    /\ cacheWritten' = FALSE
    /\ log' = <<>>
    /\ UNCHANGED <<browser, files, url, key, table, cache, peer>>

InitTwice ==
    /\ InitFiles(MaxRaw, {NoTime} \cup SampleTimes, MaxRaw)
    /\ url \in BOOLEAN
    /\ key \in BOOLEAN
    /\ table = {}
    /\ tableAtStart = table
    /\ cache = <<>>
    /\ InitRun

NextTwice == Next \/ NextRun

SpecTwice == InitTwice /\ [][NextTwice]_vars

(***************************************************************************)
(* Exports whose records have one field each that holds something other    *)
(* than the usual: any of the JavaScript values above in one of the        *)
(* optional fields, or a start timestamp of any kind.                      *)
(***************************************************************************)
NumericRawFields ==
    {"duration", "distance", "elevationGain", "avgSpeed", "avgHr", "maxHr",
     "calories", "avgPower", "trainingStressScore", "avgTemperature",
     "minTemperature", "maxTemperature", "startLatitude", "startLongitude"}

TextRawFields == {"name", "activityType", "locationName", "description"}

\* null, "n/a", "", 1e999, 0, -1.5 and 834412.
FieldValues ==
    {Null, NaNv, Blank, Inf, Num(0), Ratio(0 - 15, 10), Num(834412)}

TimeValues == {NoTime, NaNTime, BlankTime, InfTime, HugeTime, OldTime}

\* The variations of one record: the field varied and its value.
Variations ==
    ((NumericRawFields \cup TextRawFields) \X FieldValues)
        \cup ({"beginTimestamp"} \X TimeValues)

InitFields ==
    /\ \E L \in 0..MaxFieldRaw :
         \E var \in [1..L -> Variations] :
            files = <<[kind |-> "ok",
                       recs |-> [j \in 1..L |->
                                   WithField(RawActivity(j, NewTime, j),
                                             var[j][1], var[j][2])]],
                      [kind |-> "missing", recs |-> <<>>],
                      [kind |-> "ok", recs |-> <<>>]>>
    /\ url \in BOOLEAN
    /\ key = TRUE
    /\ table = StaleRows
    /\ tableAtStart = table
    /\ cache = <<>>
    /\ InitRun

SpecFields == InitFields /\ [][Next]_vars

(***************************************************************************)
(* Exports whose records have a finite number in one of the three fields   *)
(* that carry a unit: duration (ms), distance (cm) and avgSpeed (cm/ms).   *)
(***************************************************************************)
UnitRawFields == {"duration", "distance", "avgSpeed"}

\* 0, 1, 49, 50, 100, 499, 500, 1500, 834400, 2945000, -50, -500, -1501,
\* 0.014, 2.5 and -1.5.
UnitValues ==
    {Num(0), Num(1), Num(49), Num(50), Num(100), Num(499), Num(500),
     Num(1500), Num(834400), Num(2945000), Num(0 - 50), Num(0 - 500),
     Num(0 - 1501), Ratio(14, 1000), Ratio(25, 10), Ratio(0 - 15, 10)}

InitUnits ==
    /\ \E L \in 0..MaxFieldRaw :
         \E var \in [1..L -> UnitRawFields \X UnitValues] :
            files = <<[kind |-> "ok",
                       recs |-> [j \in 1..L |->
                                   WithField(RawActivity(j, NewTime, j),
                                             var[j][1], var[j][2])]],
                      [kind |-> "ok", recs |-> <<>>],
                      [kind |-> "ok", recs |-> <<>>]>>
    /\ url \in BOOLEAN
    /\ key = TRUE
    /\ table = StaleRows
    /\ tableAtStart = table
    /\ cache = <<>>
    /\ InitRun

SpecUnits == InitUnits /\ [][Next]_vars

(***************************************************************************)
(* Exports whose first file holds, once and at any position, the activity  *)
(* 42 that began at 2012-05-09T08:05:00.000Z (the run of the spot check of *)
(* step 5, under another id); the other records of the three files have    *)
(* other ids, repeated or not, and usable or unusable timestamps.          *)
(***************************************************************************)
PragRun ==
    [activityId |-> 42, beginTimestamp |-> Time(1336550700, 0),
     distance |-> Num(834400), duration |-> Num(2945000)]

ScenarioTsValues == {NoTime, NaNTime, HugeTime, NewTime}

InitScenario ==
    /\ \E L \in 0..MaxRaw :
         \E ids \in [1..L -> 1..L] :
           /\ FirstUseOrder(ids)
           /\ L - Cardinality({ids[j] : j \in 1..L}) <= 1
           /\ \E ts \in [1..L -> ScenarioTsValues] :
                \E c1 \in 0..L :
                  \E c2 \in c1..L :
                    \E at \in 0..c1 :
                      /\ c1 + 1 <= MaxFileLen
                      /\ c2 - c1 <= MaxFileLen
                      /\ L - c2 <= MaxFileLen
                      /\ LET others == [j \in 1..L |->
                                          RawActivity(ids[j], ts[j], j)]
                         IN  files =
                               <<[kind |-> "ok",
                                  recs |-> SubSeq(others, 1, at) \o <<PragRun>>
                                             \o SubSeq(others, at + 1, c1)],
                                 [kind |-> "ok",
                                  recs |-> SubSeq(others, c1 + 1, c2)],
                                 [kind |-> "ok",
                                  recs |-> SubSeq(others, c2 + 1, L)]>>
    /\ url \in BOOLEAN
    /\ key = TRUE
    /\ table = StaleRows
    /\ tableAtStart = table
    /\ cache = <<>>
    /\ InitRun

SpecScenario == InitScenario /\ [][Next]_vars

(***************************************************************************)
(* Exports of activities that began at midnight UTC of 2020-01-01,         *)
(* 2021-06-15 and 2019-12-31, in any order and with repeated dates.        *)
(***************************************************************************)
Day2020 == Time(1577836800, 0)
Day2021 == Time(1623715200, 0)
Day2019 == Time(1577750400, 0)
ScenarioTimes == {Day2020, Day2021, Day2019}

InitDates ==
    /\ InitFiles(MaxRaw, ScenarioTimes, 0)
    /\ url \in BOOLEAN
    /\ key \in BOOLEAN
    /\ table = StaleRows
    /\ tableAtStart = table
    /\ cache = <<>>
    /\ InitRun

SpecDates == InitDates /\ [][Next]_vars

(***************************************************************************)
(* Two processes running the script at the same time over the same export  *)
(* directory, environment and table.  Steps 1 to 5 of main are synchronous *)
(* and touch nothing the other process reads but the cache file, so the    *)
(* second process takes them as one step; its upsert loop is the loop      *)
(* above on its own locals.  Each of its calls notes how many calls of the *)
(* first process had completed when it completed.                          *)
(***************************************************************************)
Completed == {c \in DOMAIN calls : calls[c].state = "ok"}

PeerPending == {c \in DOMAIN peer.calls : peer.calls[c].state = "pending"}

PeerStart ==
    /\ peer.pc = "idle"
    /\ LET r == ReadAll(files)
           n == NormalizeAll(Dedupe(r.allRaw))
           sorted == SortNewestFirst(n.normalized)
       IN  IF r.threw \/ n.threw
           THEN /\ peer' = [peer EXCEPT !.pc = "fatal"]
                /\ cache' = cache
           ELSE /\ cache' = JsonStringify(sorted)
                /\ peer' = [peer EXCEPT
                                !.pc = IF SeedingDisabled THEN "done" ELSE "loop",
                                !.normalized = sorted,
                                !.i = 0]
    /\ UNCHANGED <<browser, files, url, key, table, cacheWritten, pc, locals, runNo,
                   tableAtStart, history, log>>

PeerUpsertCall ==
    /\ peer.pc = "loop"
    /\ peer.i < Len(peer.normalized)
    /\ peer' = [peer EXCEPT
                    !.calls = Append(@, [batch |-> Slice(peer.normalized, peer.i,
                                                         peer.i + CHUNK_SIZE),
                                         state |-> "pending",
                                         after |-> 0]),
                    !.pc = "await"]
    /\ UNCHANGED <<browser, files, url, key, table, cache, cacheWritten, pc, locals,
                   runNo, tableAtStart, history, log>>

PeerUpsertOk ==
    /\ peer.pc = "await"
    /\ \E c \in PeerPending :
         /\ table' = Upsert(table, JsonStringify(peer.calls[c].batch))
         /\ peer' = [peer EXCEPT
                         !.calls[c].state = "ok",
                         !.calls[c].after = Cardinality(Completed),
                         !.i = @ + CHUNK_SIZE,
                         !.pc = AfterOk]
    /\ UNCHANGED <<browser, files, url, key, cache, cacheWritten, pc, locals, runNo,
                   tableAtStart, history, log>>

PeerUpsertError ==
    /\ peer.pc = "await"
    /\ \E c \in PeerPending :
         peer' = [peer EXCEPT !.calls[c].state = "error", !.pc = AfterError]
    /\ UNCHANGED <<browser, files, url, key, table, cache, cacheWritten, pc, locals,
                   runNo, tableAtStart, history, log>>

PeerFinish ==
    /\ peer.pc = "loop"
    /\ peer.i >= Len(peer.normalized)
    /\ peer' = [peer EXCEPT !.pc = "done"]
    /\ UNCHANGED <<browser, files, url, key, table, cache, cacheWritten, pc, locals,
                   runNo, tableAtStart, history, log>>

InitConcurrent ==
    /\ InitFiles(MaxRaw, SampleTimes, 0)
    /\ url \in BOOLEAN
    /\ key = TRUE
    /\ table = StaleRows
    /\ tableAtStart = table
    /\ cache = <<>>
    /\ InitRun

NextConcurrent ==
    \/ Next
    \/ PeerStart
    \/ PeerUpsertCall
    \/ PeerUpsertOk
    \/ PeerUpsertError
    \/ PeerFinish

SpecConcurrent == InitConcurrent /\ [][NextConcurrent]_vars

(***************************************************************************)
(* The web application over a seeded table.  The table holds what an       *)
(* import of three activities has written: a run named Prag of            *)
(* 2012-05-09 (8344 m, 150 bpm), an activity of 2020-01-01 located in      *)
(* PRAG (no distance, 120 bpm) and a ride of 2021-06-15 (1.5 m, no heart   *)
(* rate).  The import script is not run while the application is used.     *)
(***************************************************************************)
SeedExport ==
    <<[activityId |-> 1, beginTimestamp |-> Time(1336550700, 0),
       name |-> Str(<<"P", "r", "a", "g">>),
       distance |-> Num(834400), avgHr |-> Num(150)],
      [activityId |-> 2, beginTimestamp |-> Day2020,
       locationName |-> Str(<<"P", "R", "A", "G">>), avgHr |-> Num(120)],
      [activityId |-> 3, beginTimestamp |-> Day2021,
       name |-> Str(<<"R", "i", "d", "e">>), distance |-> Num(150)]>>

SeededRows == Upsert({}, JsonStringify(NormalizeAll(SeedExport).normalized))

InitStore ==
    /\ files = [f \in 1..NumFiles |-> [kind |-> "ok", recs |-> <<>>]]
    /\ url = TRUE
    /\ key = TRUE
    /\ table = SeededRows
    /\ tableAtStart = table
    /\ cache = <<>>
    /\ InitMain

\* The columns of the activities table; the store reports an error on a
\* query that names another column.
StoreColumns == DOMAIN Row(0, NullDate, Null, Null, Null)

\* A request to /api/activities that has been sent: no query issued and no
\* answer yet.
Request(params) ==
    [params |-> params, state |-> "sent",
     query |-> [column |-> "", ascending |-> FALSE, search |-> <<>>,
                dateFrom |-> NullDate, dateTo |-> NullDate],
     status |-> 0, data |-> <<>>]

\* The endpoint GET handles a request: it builds the query, awaits the
\* store and answers with the rows, or with status 500 when the store
\* reports an error.
GET ==
    \E q \in DOMAIN requests :
      /\ requests[q].state = "sent"
      /\ LET query == QueryOf(requests[q].params)
         IN  \/ /\ query.column \in StoreColumns
                /\ \E data \in QueryResults(table, query.column,
                                            query.ascending, query.search,
                                            query.dateFrom, query.dateTo) :
                   requests' = [requests EXCEPT
                                   ![q].state = "served",
                                   ![q].query = query,
                                   ![q].status = 200,
                                   ![q].data = data]
             \/ requests' = [requests EXCEPT
                                ![q].state = "served",
                                ![q].query = query,
                                ![q].status = 500]
      /\ UNCHANGED <<import, activities, loading, error, search, dateFrom,
                     dateTo, sort, selectedIds, focusedIndex, columns,
                     showColMenu, dragColId, resizeRef, timer, rendered,
                     batched, exchanges>>

(***************************************************************************)
(* The endpoint called by any client, with search parameters of its        *)
(* choice.                                                                 *)
(***************************************************************************)
\* No value, or one of the values.
Optional(values) == {{}} \cup {{v} : v \in values}

\* The search parameters of a URL that carries the given values.
SearchParams(given) ==
    [name \in {n \in DOMAIN given : given[n] # {}} |->
        CHOOSE v \in given[name] : TRUE]

ApiSortBy ==
    {"date", "distance_m", "avg_hr", "name", "max_hr", "", "DATE",
     "date;drop"}

ApiParams ==
    {SearchParams([sortBy |-> sortBy, sortDir |-> sortDir, search |-> term,
                   dateFrom |-> from, dateTo |-> to]) :
        sortBy \in Optional(ApiSortBy),
        sortDir \in Optional({"asc", "desc", "ASC"}),
        term \in Optional({<<"p", "r", "a", "g">>}),
        from \in Optional({<<2020, 1, 1>>}),
        to \in Optional({<<2020, 12, 31>>})}

ApiCall ==
    /\ Len(requests) < MaxApiCalls
    /\ \E params \in ApiParams : requests' = Append(requests, Request(params))
    /\ UNCHANGED <<import, activities, loading, error, search, dateFrom,
                   dateTo, sort, selectedIds, focusedIndex, columns,
                   showColMenu, dragColId, resizeRef, timer, rendered,
                   batched, exchanges>>

InitRoute == InitStore /\ InitView(defaultColumnConfigs)

NextRoute == ApiCall \/ GET

SpecRoute == InitRoute /\ [][NextRoute]_vars

(***************************************************************************)
(* The component ActivityTable.  An action is an event handler together    *)
(* with the render that follows it and the effects of that render: the     *)
(* fetch effect, which runs when search, dateFrom, dateTo or sort has      *)
(* changed and replaces the pending timer by a new one, and the focus      *)
(* effect, which runs when activities has been set.                        *)
(***************************************************************************)
filters == <<search, dateFrom, dateTo>>

fetched == <<activities, loading, error>>

selection == <<selectedIds, focusedIndex>>

layout == <<columns, showColMenu, dragColId, resizeRef, rendered, batched>>

\* What the user types into the search box and picks in the two date inputs.
SearchTerms == {<<>>, <<"p", "r", "a", "g">>}
FromDates == {NullDate, <<2020, 1, 1>>}
ToDates == {NullDate, <<2020, 12, 31>>}

\* The component is followed up to MaxRequests requests: a change of a
\* filter or of the sort is taken while the request that it schedules can
\* still be sent.
CanFetch == Len(requests) < MaxRequests

\* onChange of the search input: setSearch(e.target.value).
SetSearch ==
    /\ CanFetch
    /\ \E term \in SearchTerms : term # search /\ search' = term
    /\ timer' = TRUE
    /\ UNCHANGED <<import, requests, fetched, dateFrom, dateTo, sort,
                   selection, layout, exchanges>>

SetDateFrom ==
    /\ CanFetch
    /\ \E date \in FromDates : date # dateFrom /\ dateFrom' = date
    /\ timer' = TRUE
    /\ UNCHANGED <<import, requests, fetched, search, dateTo, sort,
                   selection, layout, exchanges>>

SetDateTo ==
    /\ CanFetch
    /\ \E date \in ToDates : date # dateTo /\ dateTo' = date
    /\ timer' = TRUE
    /\ UNCHANGED <<import, requests, fetched, search, dateFrom, sort,
                   selection, layout, exchanges>>

\* The Clear button, shown when one of the three filters is set.
ClearFilters ==
    /\ CanFetch
    /\ search # <<>> \/ dateFrom # NullDate \/ dateTo # NullDate
    /\ search' = <<>>
    /\ dateFrom' = NullDate
    /\ dateTo' = NullDate
    /\ timer' = TRUE
    /\ UNCHANGED <<import, requests, fetched, sort, selection, layout,
                   exchanges>>

\* toggleSort(key).
toggleSort(prev, sortKey) ==
    IF prev.key = sortKey
    THEN [key |-> sortKey, dir |-> IF prev.dir = "desc" THEN "asc" ELSE "desc"]
    ELSE [key |-> sortKey, dir |-> "desc"]

\* A click on the header of a visible column:
\* col.sortKey && toggleSort(col.sortKey).
HeaderClick ==
    /\ CanFetch
    /\ \E col \in Range(visibleColumns(columns)) :
          /\ col.sortKey # NoSortKey
          /\ sort' = toggleSort(sort, col.sortKey)
    /\ timer' = TRUE
    /\ UNCHANGED <<import, requests, fetched, filters, selection, layout,
                   exchanges>>

\* The search parameters that fetchActivities builds.
FetchParams ==
    SearchParams([sortBy |-> {sort.key},
                  sortDir |-> {sort.dir},
                  search |-> IF search # <<>> THEN {search} ELSE {},
                  dateFrom |-> IF dateFrom # NullDate THEN {dateFrom} ELSE {},
                  dateTo |-> IF dateTo # NullDate THEN {dateTo} ELSE {}])

\* The timer of the fetch effect fires: fetchActivities() up to its await.
TimerFires ==
    /\ timer
    /\ CanFetch
    /\ timer' = FALSE
    /\ loading' = TRUE
    /\ error' = NoError
    /\ requests' = Append(requests, Request(FetchParams))
    /\ UNCHANGED <<import, activities, filters, sort, selection, layout,
                   exchanges>>

\* activities.findIndex((a) => a.id === id), counted from 0.
findIndex(acts, id) ==
    IF \E p \in DOMAIN acts : acts[p].id = id
    THEN (CHOOSE p \in DOMAIN acts :
             /\ acts[p].id = id
             /\ \A o \in 1..(p - 1) : acts[o].id # id) - 1
    ELSE 0 - 1

\* The focus effect: with one id selected the focus goes to its row, or to
\* null when the list does not hold it; otherwise the focus stays.
SyncFocus(acts, ids, focus) ==
    IF Cardinality(ids) = 1
    THEN LET idx == findIndex(acts, CHOOSE id \in ids : TRUE)
         IN  IF idx = 0 - 1 THEN NoFocus ELSE <<idx>>
    ELSE focus

\* The response of a request arrives: the rest of fetchActivities.
FetchResolves ==
    \E q \in DOMAIN requests :
      /\ requests[q].state = "served"
      /\ requests' = [requests EXCEPT ![q].state = "delivered"]
      /\ IF requests[q].status = 200
         THEN /\ activities' = requests[q].data
              /\ focusedIndex' =
                    SyncFocus(requests[q].data, selectedIds, focusedIndex)
              /\ UNCHANGED error
         ELSE /\ error' = "HTTP 500"
              /\ UNCHANGED <<activities, focusedIndex>>
      /\ loading' = FALSE
      /\ UNCHANGED <<import, filters, sort, selectedIds, layout, timer,
                     exchanges>>

\* The rows on the screen: none while the list is loading.
RowsShown == IF loading THEN {} ELSE 0..(Len(activities) - 1)

\* onClick of a row.
RowClick ==
    /\ \E rowIdx \in RowsShown :
          LET a == activities[rowIdx + 1]
              isOnlySelected == Cardinality(selectedIds) = 1 /\ a.id \in selectedIds
          IN  IF isOnlySelected
              THEN selectedIds' = {} /\ focusedIndex' = NoFocus
              ELSE selectedIds' = {a.id} /\ focusedIndex' = <<rowIdx>>
    /\ UNCHANGED <<import, requests, fetched, filters, sort, layout, timer,
                   exchanges>>

\* onCheckedChange of the checkbox of a row.
RowCheckbox ==
    /\ \E rowIdx \in RowsShown :
          LET a == activities[rowIdx + 1]
              adding == a.id \notin selectedIds
          IN  /\ selectedIds' = IF a.id \in selectedIds
                                THEN selectedIds \ {a.id}
                                ELSE selectedIds \cup {a.id}
              /\ focusedIndex' = IF adding THEN <<rowIdx>> ELSE focusedIndex
    /\ UNCHANGED <<import, requests, fetched, filters, sort, layout, timer,
                   exchanges>>

allChecked ==
    /\ Len(activities) > 0
    /\ \A p \in DOMAIN activities : activities[p].id \in selectedIds

\* onCheckedChange of the select-all checkbox of the table head.
SelectAll ==
    /\ IF allChecked
       THEN selectedIds' = {} /\ focusedIndex' = NoFocus
       ELSE /\ selectedIds' = {activities[p].id : p \in DOMAIN activities}
            /\ UNCHANGED focusedIndex
    /\ selectedIds' # selectedIds
    /\ UNCHANGED <<import, requests, fetched, filters, sort, layout, timer,
                   exchanges>>

\* handleKeyDown for ArrowDown and ArrowUp.
KeyDown ==
    /\ Len(activities) # 0
    /\ \E arrow \in {"ArrowDown", "ArrowUp"} :
          LET baseIdx ==
                  IF focusedIndex # NoFocus
                  THEN focusedIndex[1]
                  ELSE IF Cardinality(selectedIds) = 1
                       THEN findIndex(activities, CHOOSE id \in selectedIds : TRUE)
                       ELSE 0 - 1
              newIdx ==
                  IF arrow = "ArrowDown"
                  THEN Min(baseIdx + 1, Len(activities) - 1)
                  ELSE IF baseIdx - 1 > 0 THEN baseIdx - 1 ELSE 0
          IN  /\ newIdx + 1 \in DOMAIN activities
              /\ focusedIndex' = <<newIdx>>
              /\ selectedIds' = {activities[newIdx + 1].id}
    /\ UNCHANGED <<import, requests, fetched, filters, sort, layout, timer,
                   exchanges>>

\* selectedActivities and panelVisible of the render.
selectedActivities == SelectSeq(activities, LAMBDA a : a.id \in selectedIds)

panelVisible == Cardinality(selectedIds) > 0

\* onClose of the side panels and of the mobile sheet.
ClosePanel ==
    /\ panelVisible
    /\ selectedIds' = {}
    /\ focusedIndex' = NoFocus
    /\ UNCHANGED <<import, requests, fetched, filters, sort, layout, timer,
                   exchanges>>

\* The table with the layout of an earlier session, the columns date and
\* name visible.
InitTable == InitStore /\ InitView(savedColumnConfigs)

NextTable ==
    \/ SetSearch
    \/ SetDateFrom
    \/ SetDateTo
    \/ ClearFilters
    \/ HeaderClick
    \/ TimerFires
    \/ GET
    \/ FetchResolves
    \/ RowClick
    \/ RowCheckbox
    \/ SelectAll
    \/ KeyDown
    \/ ClosePanel

SpecTable == InitTable /\ [][NextTable]_vars

(***************************************************************************)
(* The column management of ActivityTable.  A handler reads columns and    *)
(* dragColId as the last render left them (rendered) and passes its        *)
(* updater to setColumns, which applies it to the latest columns; the      *)
(* render is a step of its own, so that several events may be handled      *)
(* before it (batched counts them).                                        *)
(***************************************************************************)
\* The position of the column id in cols.
ColumnIndex(cols, id) == CHOOSE c \in DOMAIN cols : cols[c].id = id

\* The headers on the screen that the user works with.
HeadersShown ==
    {id \in MenuColumns : rendered.columns[ColumnIndex(rendered.columns, id)].visible}

\* onClick of the Columns button: setShowColMenu((v) => !v), and the render.
ToggleColMenu ==
    /\ batched = 0
    /\ showColMenu' = ~showColMenu
    /\ UNCHANGED <<import, requests, fetched, filters, sort, selection,
                   columns, dragColId, resizeRef, rendered, batched, timer,
                   exchanges>>

\* The updater of toggleColumnVisibility(id); count is the visibleCount that
\* the handler computed.
toggleColumnVisibility(prev, id, count) ==
    [c \in DOMAIN prev |->
        IF prev[c].id # id THEN prev[c]
        ELSE IF prev[c].visible /\ count <= 1 THEN prev[c]
        ELSE [prev[c] EXCEPT !.visible = ~prev[c].visible]]

\* onCheckedChange of a checkbox of the column menu; the checkbox of the
\* last visible column is disabled.
ToggleColumn ==
    /\ showColMenu
    /\ batched < MaxPending
    /\ \E id \in MenuColumns :
          LET cfg == rendered.columns[ColumnIndex(rendered.columns, id)]
              isLast == visibleCount(rendered.columns) = 1 /\ cfg.visible
          IN  /\ ~isLast
              /\ columns' = toggleColumnVisibility(
                                columns, id, visibleCount(rendered.columns))
    /\ batched' = batched + 1
    /\ UNCHANGED <<import, requests, fetched, filters, sort, selection,
                   showColMenu, dragColId, resizeRef, rendered, timer,
                   exchanges>>

\* resetColumns(), the button of the column menu.
resetColumns ==
    /\ showColMenu
    /\ batched < MaxPending
    /\ columns' = defaultColumnConfigs
    /\ showColMenu' = FALSE
    /\ batched' = batched + 1
    /\ UNCHANGED <<import, requests, fetched, filters, sort, selection,
                   dragColId, resizeRef, rendered, timer, exchanges>>

\* startResize(colId, startX), onMouseDown of the resize handle of a header.
startResize ==
    /\ resizeRef = NoResize
    /\ \E colId \in HeadersShown :
          resizeRef' =
              [colId |-> colId, startX |-> 0,
               startWidth |-> rendered.columns[ColumnIndex(rendered.columns, colId)].width]
    /\ UNCHANGED <<import, requests, fetched, filters, sort, selection,
                   columns, showColMenu, dragColId, rendered, batched, timer,
                   exchanges>>

\* Where the pointer moves to while a handle is held.
PointerX == {0 - 1000, 30}

\* onPointerMove of startResize.
onPointerMove ==
    /\ resizeRef # NoResize
    /\ batched < MaxPending
    /\ \E clientX \in PointerX :
          LET def == DefOf(resizeRef.colId)
              delta == clientX - resizeRef.startX
              newWidth == IF def.minWidth > resizeRef.startWidth + delta
                          THEN def.minWidth
                          ELSE resizeRef.startWidth + delta
          IN  /\ newWidth <= MaxWidth
              /\ columns' = [c \in DOMAIN columns |->
                                IF columns[c].id = resizeRef.colId
                                THEN [columns[c] EXCEPT !.width = newWidth]
                                ELSE columns[c]]
    /\ batched' = batched + 1
    /\ UNCHANGED <<import, requests, fetched, filters, sort, selection,
                   showColMenu, dragColId, resizeRef, rendered, timer,
                   exchanges>>

\* onPointerUp of startResize.
onPointerUp ==
    /\ resizeRef # NoResize
    /\ resizeRef' = NoResize
    /\ UNCHANGED <<import, requests, fetched, filters, sort, selection,
                   columns, showColMenu, dragColId, rendered, batched, timer,
                   exchanges>>

\* handleDragStart(e, colId) on a header.
handleDragStart ==
    /\ batched < MaxPending
    /\ \E colId \in HeadersShown : dragColId' = colId
    /\ batched' = batched + 1
    /\ UNCHANGED <<import, requests, fetched, filters, sort, selection,
                   columns, showColMenu, resizeRef, rendered, timer,
                   exchanges>>

\* The updater of handleDrop: the dragged column is taken out of the columns
\* sorted by order and put in at the index the target had; the orders are
\* numbered again.
Reorder(prev, dragId, targetId) ==
    LET sorted == ByOrder(prev)
        dragIdx == ColumnIndex(sorted, dragId)
        targetIdx == ColumnIndex(sorted, targetId)
        without == SubSeq(sorted, 1, dragIdx - 1)
                       \o SubSeq(sorted, dragIdx + 1, Len(sorted))
        moved == SubSeq(without, 1, targetIdx - 1) \o <<sorted[dragIdx]>>
                     \o SubSeq(without, targetIdx, Len(without))
    IN  [p \in DOMAIN moved |-> [moved[p] EXCEPT !.order = p - 1]]

\* handleDrop(e, targetColId) on a header.
handleDrop ==
    /\ batched < MaxPending
    /\ rendered.dragColId # NoColumn
    /\ \E targetColId \in HeadersShown :
          /\ rendered.dragColId # targetColId
          /\ columns' = Reorder(columns, rendered.dragColId, targetColId)
    /\ dragColId' = NoColumn
    /\ batched' = batched + 1
    /\ UNCHANGED <<import, requests, fetched, filters, sort, selection,
                   showColMenu, resizeRef, rendered, timer, exchanges>>

\* handleDragEnd().
handleDragEnd ==
    /\ batched < MaxPending
    /\ dragColId # NoColumn
    /\ dragColId' = NoColumn
    /\ batched' = batched + 1
    /\ UNCHANGED <<import, requests, fetched, filters, sort, selection,
                   columns, showColMenu, resizeRef, rendered, timer,
                   exchanges>>

\* The component renders: the handlers of the next events see the columns
\* and the dragColId of this render.
Render ==
    /\ batched > 0
    /\ rendered' = [columns |-> columns, dragColId |-> dragColId]
    /\ batched' = 0
    /\ UNCHANGED <<import, requests, fetched, filters, sort, selection,
                   columns, showColMenu, dragColId, resizeRef, timer,
                   exchanges>>

\* The table opens with the default layout, or with the layout that an
\* earlier session left.
InitColumns ==
    /\ InitStore
    /\ \E saved \in {defaultColumnConfigs, savedColumnConfigs} : InitView(saved)

NextColumns ==
    \/ ToggleColMenu
    \/ ToggleColumn
    \/ resetColumns
    \/ startResize
    \/ onPointerMove
    \/ onPointerUp
    \/ handleDragStart
    \/ handleDrop
    \/ handleDragEnd
    \/ Render

SpecColumns == InitColumns /\ [][NextColumns]_vars

(***************************************************************************)
(* The session gate updateSession.  A pathname is the sequence of its      *)
(* segments: <<>> is "/", <<"login">> is "/login".  The identity provider  *)
(* answers getUser() with a user or with none; a request without a        *)
(* session cookie has no user.  While it answers, the provider may hand    *)
(* refreshed tokens to setAll.                                             *)
(***************************************************************************)
Pathnames ==
    {<<>>, <<"login">>, <<"login", "reset">>, <<"Login">>,
     <<"api", "activities">>}

GateRequests ==
    [pathname : Pathnames, search : {"", "?next=/"}, cookie : BOOLEAN]

\* request.nextUrl.pathname === '/login' with a pathname that begins with
\* /login.
isLoginPage_prefix(pathname) == pathname # <<>> /\ pathname[1] = "login"

\* request.nextUrl.pathname === '/login'.
isLoginPage(pathname) == pathname = <<"login">>

\* The response of updateSession(request) when getUser() gave user and
\* setAll has been called or not.
Respond(request, user, refreshed) ==
    IF ~user /\ ~isLoginPage(request.pathname)
    THEN [kind |-> "redirect", pathname |-> <<"login">>,
          search |-> request.search, cookies |-> FALSE]
    ELSE IF user /\ isLoginPage(request.pathname)
    THEN [kind |-> "redirect", pathname |-> <<>>,
          search |-> request.search, cookies |-> FALSE]
    ELSE [kind |-> "next", pathname |-> request.pathname,
          search |-> request.search, cookies |-> refreshed]

updateSession ==
    /\ Len(exchanges) < MaxGateRequests
    /\ \E request \in GateRequests, user \in BOOLEAN, refreshed \in BOOLEAN :
          /\ user => request.cookie
          /\ refreshed => request.cookie
          /\ exchanges' =
                Append(exchanges,
                       [request |-> request, user |-> user,
                        response |-> Respond(request, user, refreshed)])
    /\ UNCHANGED <<import, requests, fetched, filters, sort, selection,
                   layout, timer>>

InitGate == InitStore /\ InitView(defaultColumnConfigs)

SpecGate == InitGate /\ [][updateSession]_vars

(***************************************************************************)
(* Properties.                                                             *)
(***************************************************************************)
\* The positions <<file, index>> of the raw activities of the export.
Occ == UNION {{<<f, j>> : j \in DOMAIN files[f].recs} : f \in 1..NumFiles}

RecAt(p) == files[p[1]].recs[p[2]]

\* Merged order: earlier source file first, then earlier position in it.
Earlier(p, q) == p[1] < q[1] \/ (p[1] = q[1] /\ p[2] < q[2])

\* Among the positions occ, those that hold the first occurrence of their
\* activity id.
FirstOcc(occ) ==
    {p \in occ : \A q \in occ :
        RecAt(q).activityId = RecAt(p).activityId => (q = p \/ Earlier(p, q))}

\* The place of position p among the positions first, in merged order.
RankOf(p, first) == 1 + Cardinality({q \in first : Earlier(q, p)})

NoMalformedFile == \A f \in 1..NumFiles : files[f].kind # "malformed"

DedupDone == pc \notin {"read", "dedup"} /\ NoMalformedFile

\* C1: once the deduplication step has run, unique holds, in merged order
\* (earlier file first, then earlier position), exactly the first occurrence
\* of every activity id of the export, with that occurrence's field values:
\* each id once, later records with the id discarded.
C1_FirstOccurrenceWins ==
    DedupDone =>
        LET occ == Occ
            first == FirstOcc(occ)
        IN  /\ Len(unique) = Cardinality(first)
            /\ \A p \in first : unique[RankOf(p, first)] = RecAt(p)
            /\ {unique[j].activityId : j \in DOMAIN unique}
                 = {RecAt(p).activityId : p \in occ}
            /\ \A a, b \in DOMAIN unique :
                 a # b => unique[a].activityId # unique[b].activityId

\* An export [A, B, A] whose second A lies in a later file than the first and
\* differs from it in its timestamp, deduplicated to [A, B].
C1_Witness ==
    /\ DedupDone
    /\ Len(allRaw) = 3
    /\ Len(unique) = 2
    /\ allRaw[1].activityId = allRaw[3].activityId
    /\ allRaw[1].beginTimestamp # allRaw[3].beginTimestamp
    /\ unique[1] = allRaw[1]
    /\ Len(files[1].recs) = 2
    /\ Len(files[3].recs) = 1

Errored == {c \in DOMAIN calls : calls[c].state = "error"}

\* C2: an upsert call that returned an error is the last call of its run: no
\* call follows it, neither for the same batch nor for a later one.
C2_NoCallAfterError ==
    \A c \in Errored : c = Len(calls) /\ Pending = {}

\* The second call failed while a third batch was still to be submitted.
C2_Witness ==
    /\ Errored = {2}
    /\ Len(normalized) > 2 * CHUNK_SIZE
    /\ pc = "failed"

\* The rows of the first m records of the sorted canonical set written over
\* the rows the run found in the table.
Overwritten(m) ==
    LET done == Range(SubSeq(normalized, 1, Min(m, Len(normalized))))
    IN  {r \in tableAtStart : r.id \notin Ids(done)} \cup done

\* C3: when call k fails, the table holds what the run found in it
\* overwritten by the batches 1..k-1, a prefix of the sorted canonical set,
\* and nothing of batch k or of a later batch.
C3_CommittedBatchesRemain ==
    pc = "failed" =>
        table = Overwritten((Len(calls) - 1) * CHUNK_SIZE)

\* The second call failed after the first one replaced a stored row.
C3_Witness ==
    /\ pc = "failed"
    /\ Len(calls) = 2
    /\ table # tableAtStart
    /\ \E r \in tableAtStart : \E t \in table : r.id = t.id /\ r # t
    /\ Cardinality(table) < Cardinality(tableAtStart) + Len(normalized)

CeilDiv(n, m) == (n + m - 1) \div m

Seeded == pc = "done" /\ url /\ key

\* C4: call c carries the records (c-1)*CHUNK_SIZE+1 .. c*CHUNK_SIZE of the
\* sorted set (fewer only at its end), so the batches are consecutive, each
\* of exactly CHUNK_SIZE records except possibly the last, and a run that
\* seeded everything made ceil(n / CHUNK_SIZE) calls.
C4_BatchPartition ==
    LET n == Len(normalized)
    IN  /\ \A c \in DOMAIN calls :
             /\ calls[c].batch
                  = SubSeq(normalized, (c - 1) * CHUNK_SIZE + 1,
                           Min(c * CHUNK_SIZE, n))
             /\ Len(calls[c].batch) >= 1
             /\ c < CeilDiv(n, CHUNK_SIZE) =>
                  Len(calls[c].batch) = CHUNK_SIZE
        /\ Len(calls) <= CeilDiv(n, CHUNK_SIZE)
        /\ Seeded => Len(calls) = CeilDiv(n, CHUNK_SIZE)

\* Three calls, the last one for a partial batch.
C4_Witness ==
    /\ Seeded
    /\ Len(calls) = 3
    /\ Len(calls[1].batch) = CHUNK_SIZE
    /\ Len(calls[2].batch) = CHUNK_SIZE
    /\ Len(calls[3].batch) < CHUNK_SIZE

\* C5: at most one upsert call of a run is in flight, and a call is in
\* flight only when every earlier call of the run returned without error.
C5_SequentialCalls ==
    /\ Cardinality(Pending) <= 1
    /\ \A c \in Pending : \A b \in 1..(c - 1) : calls[b].state = "ok"

\* The third call is in flight after two completed calls.
C5_Witness ==
    /\ Pending = {3}
    /\ pc = "await"

\* C6: with an unchanged export and store credentials set, a second run that
\* seeds everything, after a first run that started from an empty table and
\* seeded everything, leaves the table with the rows the first run left.
C6_SecondRunSameRows ==
    ( /\ runNo = 2
      /\ Seeded
      /\ history[1].end = "done"
      /\ history[1].before = {} )
    => table = history[1].after

\* Both runs seeded two batches, the first run having filled the table.
C6_Witness ==
    /\ runNo = 2
    /\ Seeded
    /\ history[1].end = "done"
    /\ history[1].before = {}
    /\ Len(calls) = 2
    /\ Cardinality(history[1].after) = 3
    /\ skipped = 0

LacksTimestamp(raw) == raw.beginTimestamp.k \in {"absent", "nan"}

NormalizeDone == pc \in {"sort", "write", "seed", "loop", "await", "done", "failed"}

\* The normalized record that would stem from the raw record at a position
\* of the export (the distance differs from position to position).
StemsFrom(a, raw) ==
    a.id = raw.activityId /\ a.distance_m = Ratio(raw.distance.n, 100)

\* C7: after the normalize step no record of the normalized list stems from
\* a raw record without a start timestamp (absent, or not a number), and the
\* skip count is the number of such records handed to the step, each of
\* them logged once with its id.
C7_SkipPolicy ==
    NormalizeDone =>
        /\ \A j \in DOMAIN allRaw :
             LacksTimestamp(allRaw[j]) =>
                 \A h \in DOMAIN normalized : ~StemsFrom(normalized[h], allRaw[j])
        /\ \A j \in DOMAIN unique :
             LacksTimestamp(unique[j]) =>
                 \A h \in DOMAIN normalized : normalized[h].id # unique[j].activityId
        /\ skipped = Cardinality({j \in DOMAIN unique : LacksTimestamp(unique[j])})
        /\ LET lacking == SelectSeq(unique, LacksTimestamp)
           IN  skipLog = [j \in DOMAIN lacking |-> lacking[j].activityId]

\* Two records skipped, one without a timestamp and one whose timestamp is
\* not a number, and a third one normalized.
C7_Witness ==
    /\ NormalizeDone
    /\ skipped = 2
    /\ Len(normalized) = 1
    /\ \E j \in DOMAIN unique : unique[j].beginTimestamp.k = "absent"
    /\ \E j \in DOMAIN unique : unique[j].beginTimestamp.k = "nan"

BatchRows == UNION {Range(calls[c].batch) : c \in DOMAIN calls}

\* C8: every record of the normalized list, of the cache file, of an upsert
\* batch and of the table has a date.
C8_DatePresent ==
    \A r \in Range(normalized) \cup Range(cache) \cup BatchRows \cup table :
        r.date # NullDate

\* A run that skipped a record, wrote the cache and upserted a batch.
C8_Witness ==
    /\ Seeded
    /\ skipped >= 1
    /\ Len(cache) >= 1
    /\ Len(calls) >= 1

DistinctIds(rows) ==
    \A a, b \in DOMAIN rows : a # b => rows[a].id # rows[b].id

\* C9: the ids of the normalized list are pairwise distinct, so are those of
\* the cache file, and no id occurs twice among the rows of the run's upsert
\* batches, within a batch or in two batches.
C9_UniqueIds ==
    /\ DistinctIds(normalized)
    /\ DistinctIds(cache)
    /\ \A c, e \in DOMAIN calls :
         \A a \in DOMAIN calls[c].batch :
           \A b \in DOMAIN calls[e].batch :
             (c # e \/ a # b) => calls[c].batch[a].id # calls[e].batch[b].id

\* An export with a repeated id, seeded in two batches.
C9_Witness ==
    /\ Seeded
    /\ Len(unique) < Len(allRaw)
    /\ Len(calls) = 2

DescendingByDate(rows) ==
    \A a, b \in DOMAIN rows : a < b => ~DateLess(rows[a].date, rows[b].date)

CacheStepPassed == pc \in {"seed", "loop", "await", "done", "failed"}

\* C10: a run that got past reading and normalizing has written the cache
\* file, with the whole canonical set sorted by date descending, before its
\* first upsert call and whether or not the store credentials are set or a
\* batch fails.
C10_CacheAlwaysWritten ==
    /\ CacheStepPassed =>
         /\ cacheWritten
         /\ cache = normalized
         /\ DescendingByDate(cache)
         /\ Len(cache) = Len(unique) - skipped
    /\ calls # <<>> => cacheWritten /\ cache = normalized
    /\ pc \in {"done", "failed"} => cacheWritten

\* A run without the service key that wrote a cache of two records which the
\* export held in ascending order of date.
C10_Witness ==
    /\ pc = "done"
    /\ url
    /\ ~key
    /\ cacheWritten
    /\ Len(cache) = 2
    /\ DateLess(cache[2].date, cache[1].date)
    /\ cache[1].id = 2
    /\ calls = <<>>

Last(s) == s[Len(s)]

\* The run was aborted by an exception of the read or the normalize step.
ThrewBeforeCache ==
    \/ ~NoMalformedFile
    \/ \E j \in DOMAIN unique : unique[j].beginTimestamp.k \in {"huge", "inf", "blank"}

\* C11: in a run without the store URL or without the service key no upsert
\* call is ever made and the table stays as the run found it; the run never
\* enters the upsert loop, and unless an exception of the read or normalize
\* step aborted it, it ends normally (exit code 0) with the cache file
\* written and the notice that seeding is skipped as its last output; once
\* the cache is written the only step left is that normal end.
C11_LocalCacheOnly ==
    /\ [](( ~url \/ ~key ) =>
            /\ calls = <<>>
            /\ table = tableAtStart
            /\ pc \notin {"loop", "await", "failed"}
            /\ pc = "fatal" => ThrewBeforeCache
            /\ pc = "done" =>
                 /\ ExitCode = 0
                 /\ cacheWritten
                 /\ cache = JsonStringify(normalized)
                 /\ log # <<>>
                 /\ Last(log) = Line("skipping-seed", 0)
                 /\ \A j \in DOMAIN log : log[j].msg \notin {"fatal", "error-on-chunk"})
    /\ [][(pc = "seed" /\ (~url \/ ~key)) => pc' = "done"]_vars

\* A run with the URL but without the service key ended normally, its cache
\* holding two records and the stale table untouched.
C11_Witness ==
    /\ pc = "done"
    /\ url
    /\ ~key
    /\ Len(cache) = 2
    /\ table = StaleRows
    /\ Last(log) = Line("skipping-seed", 0)
    /\ skipped = 1

\* The records of the source files that exist, in the order of SOURCE_FILES.
RECURSIVE ExistingRecsFrom(_)
ExistingRecsFrom(f) ==
    IF f > NumFiles
    THEN <<>>
    ELSE (IF files[f].kind = "missing" THEN <<>> ELSE files[f].recs)
            \o ExistingRecsFrom(f + 1)

\* The canonical set of a list of raw records: deduplicated, normalized,
\* sorted and written as JSON.
CanonicalOf(recs) ==
    JsonStringify(SortNewestFirst(NormalizeAll(Dedupe(recs)).normalized))

IsNotFoundWarning(l) == l.msg = "warn-not-found"

\* C12: when no source file is malformed, a missing file only adds a
\* warning: the read step ends with the records of the existing files in
\* their order, one warning is printed per missing file, the run is aborted
\* only if a timestamp makes the normalize step throw, and the cache file
\* written is the canonical set of the records of the existing files.
C12_MissingFileIsEmpty ==
    NoMalformedFile =>
        /\ pc # "read" =>
             /\ allRaw = ExistingRecsFrom(1)
             /\ SelectSeq(log, IsNotFoundWarning)
                  = SelectSeq([f \in 1..NumFiles |-> Line("warn-not-found", f)],
                              LAMBDA l : files[l.n].kind = "missing")
        /\ pc = "fatal" =>
             \E j \in DOMAIN unique :
                 unique[j].beginTimestamp.k \in {"huge", "inf", "blank"}
        /\ CacheStepPassed => cache = CanonicalOf(ExistingRecsFrom(1))

\* The second source file is missing, the first and the third hold a record
\* each, and the run wrote both records to the cache and ended normally.
C12_Witness ==
    /\ files[2].kind = "missing"
    /\ Len(files[1].recs) = 1
    /\ Len(files[3].recs) = 1
    /\ pc = "done"
    /\ Len(cache) = 2
    /\ log[1] = Line("warn-not-found", 2)
    /\ {cache[1].distance_m, cache[2].distance_m}
         = {Ratio(150, 100), Ratio(300, 100)}

\* C13: when a source file that exists is not valid JSON, the run never gets
\* past the read step: it ends there as a fatal error with exit code 1,
\* nothing is deduplicated or normalized from the other files, the cache
\* file is not written, no upsert call is made and the table is untouched.
C13_MalformedFileIsFatal ==
    ~NoMalformedFile =>
        /\ pc \in {"read", "fatal"}
        /\ pc = "fatal" =>
             /\ ExitCode = 1
             /\ log # <<>>
             /\ Last(log) = Line("fatal", 0)
        /\ unique = <<>>
        /\ normalized = <<>>
        /\ ~cacheWritten
        /\ cache = <<>>
        /\ calls = <<>>
        /\ table = tableAtStart

\* The third source file is malformed, the first holds two records, the
\* store credentials are set, and the run has ended as a fatal error.
C13_Witness ==
    /\ files[3].kind = "malformed"
    /\ Len(files[1].recs) = 2
    /\ files[1].recs[1].beginTimestamp.k = "num"
    /\ url
    /\ key
    /\ pc = "fatal"
    /\ ~cacheWritten

\* C14: a run that ended exits with 0 when it completed and with a code
\* other than 0 when it hit a fatal error, and the fatal errors are a source
\* file that cannot be parsed and a failed upsert batch: skipped records,
\* invalid field values, missing files and missing credentials do not make
\* the exit code differ from 0.
C14_ExitCodes ==
    Exited =>
        /\ pc = "done" => ExitCode = 0
        /\ pc \in {"failed", "fatal"} => ExitCode # 0
        /\ Errored # {} => ExitCode # 0
        /\ ~NoMalformedFile => ExitCode # 0
        /\ (NoMalformedFile /\ Errored = {}) => ExitCode = 0

\* C15: when two processes that ran the script at the same time over the
\* same export have both seeded everything, the table is the table they
\* found overwritten by the whole canonical set, as a single run leaves it:
\* every id of the set has the row of the set, in whatever order the calls
\* of the two processes completed.
C15_ConcurrentRunsConverge ==
    (pc = "done" /\ peer.pc = "done" /\ url /\ key) =>
        /\ table = Overwritten(Len(normalized))
        /\ \A j \in DOMAIN normalized :
             \A r \in table : r.id = normalized[j].id => r = JsonRow(normalized[j])

\* Both processes completed two calls, the two calls of the second process
\* between the first and the second call of the first, and a stale row was
\* replaced.
C15_Witness ==
    /\ pc = "done"
    /\ peer.pc = "done"
    /\ url
    /\ key
    /\ Len(calls) = 2
    /\ Len(peer.calls) = 2
    /\ peer.calls[1].after = 1
    /\ peer.calls[2].after = 1
    /\ \E r \in tableAtStart : r \notin table

\* C16: at every point of a run, however it ends, every id the run found in
\* the table is still in the table, and a row whose id is not in the
\* normalized set of the run (an activity the export no longer holds, or one
\* whose record is skipped) is still the row the run found.
C16_NoRowDeleted ==
    /\ Ids(tableAtStart) \subseteq Ids(table)
    /\ \A r \in tableAtStart : r.id \notin Ids(Range(normalized)) => r \in table

\* A run seeded a record while the export holds activity 1 without a
\* timestamp and does not hold activity 99: both stale rows are still there.
C16_Witness ==
    /\ Seeded
    /\ skipLog = <<1>>
    /\ Len(calls) = 1
    /\ StaleRows \subseteq table
    /\ Cardinality(table) = 3

\* C17: after an upsert call of the run has completed, the table holds for
\* every record of its batch exactly one row with the record's id, and that
\* row is the record as sent, column by column, whether or not a row with
\* the id was stored before: a column the record has as null is null.
C17_FullOverwrite ==
    \A c \in Completed :
        \A j \in DOMAIN calls[c].batch :
            LET sent == JsonRow(calls[c].batch[j])
            IN  /\ sent \in table
                /\ \A r \in table : r.id = sent.id => r = sent

\* The stored row of activity 1 had a heart rate and a latitude and no
\* distance; the row the run wrote has a distance and neither of the two.
C17_Witness ==
    /\ Seeded
    /\ \E old \in tableAtStart :
         \E new \in table :
            /\ old.id = new.id
            /\ old.avg_hr # Null /\ new.avg_hr = Null
            /\ old.start_lat # Null /\ new.start_lat = Null
            /\ old.distance_m = Null /\ new.distance_m # Null
            /\ old.date # new.date

\* The raw fields that go through a conversion helper, each with the column
\* that takes the result.
ConvertedFields ==
    { <<"duration", "duration_sec">>, <<"distance", "distance_m">>,
      <<"elevationGain", "elevation_gain_m">>, <<"avgSpeed", "avg_speed_kmh">>,
      <<"avgHr", "avg_hr">>, <<"maxHr", "max_hr">>, <<"calories", "calories">>,
      <<"avgPower", "avg_power">>, <<"trainingStressScore", "tss">>,
      <<"avgTemperature", "avg_temperature">>,
      <<"minTemperature", "min_temperature">>,
      <<"maxTemperature", "max_temperature">> }

PassedFields ==
    { <<"startLatitude", "start_lat">>, <<"startLongitude", "start_lon">> }

\* C18: no conversion helper throws, so no run over well-formed files is
\* aborted, and a helper given a value that is not a finite number returns
\* null: a record whose timestamp is such a value is skipped (msToDate), and
\* a normalized record has null in every converted column whose raw field
\* holds such a value (cmToM, msToSec, cmPerMsToKmh, round, toInt).
C18_HelpersPropagateMissing ==
    /\ pc # "fatal"
    /\ NormalizeDone =>
         \A j \in DOMAIN unique :
            /\ unique[j].beginTimestamp.k # "num" =>
                 unique[j].activityId \notin Ids(Range(normalized))
            /\ \A a \in Range(normalized) :
                 a.id = unique[j].activityId =>
                    \A p \in ConvertedFields :
                        Get(unique[j], p[1]).k # "num" => a[p[2]] = Null

IsNullOrFinite(v) == v.k \in {"absent", "num"}

\* The rows of the upsert batches of the run as they are sent.
SentRows == UNION {Range(JsonStringify(calls[c].batch)) : c \in DOMAIN calls}

SortDone == pc \in {"write", "seed", "loop", "await", "done", "failed"}

\* C20: once the sort has run, the normalized list is a permutation of the
\* list the normalize step produced and no record stands before a record of
\* a later date; the cache file holds the list in that order and the upsert
\* batches follow it.
C20_SortedNewestFirst ==
    SortDone =>
        LET before == NormalizeAll(unique).normalized
        IN  /\ Len(normalized) = Len(before)
            /\ Range(normalized) = Range(before)
            /\ \A a, b \in DOMAIN normalized :
                 a < b => ~DateLess(normalized[a].date, normalized[b].date)
            /\ CacheStepPassed =>
                 /\ cache = JsonStringify(normalized)
                 /\ \A a, b \in DOMAIN cache :
                      a < b => ~DateLess(cache[a].date, cache[b].date)
            /\ \A c \in DOMAIN calls :
                 \A j \in DOMAIN calls[c].batch :
                    calls[c].batch[j] = normalized[(c - 1) * CHUNK_SIZE + j]

\* Records dated 2020-01-01, 2021-06-15 and 2019-12-31, in this order in the
\* export, were written to the cache as 2021-06-15, 2020-01-01, 2019-12-31
\* and sent in that order.
C20_Witness ==
    /\ Seeded
    /\ Len(unique) = 3
    /\ unique[1].beginTimestamp = Day2020
    /\ unique[2].beginTimestamp = Day2021
    /\ unique[3].beginTimestamp = Day2019
    /\ Len(cache) = 3
    /\ cache[1].date = <<2021, 6, 15>>
    /\ cache[2].date = <<2020, 1, 1>>
    /\ cache[3].date = <<2019, 12, 31>>
    /\ cache[1].id = 2
    /\ calls[1].batch[1].id = 2

\* The integer nearest to n/d, a tie going to the larger one: the r with
\* r - 1/2 <= n/d < r + 1/2.
Nearest(n, d) ==
    CHOOSE r \in (n \div d - 1)..(n \div d + 1) :
        /\ (2 * r - 1) * d <= 2 * n
        /\ 2 * n < (2 * r + 1) * d

\* The number v is the fraction n/d.
IsFraction(v, n, d) == v.k = "num" /\ v.n * d = n * v.d

Records42(rows) == {j \in DOMAIN rows : rows[j].id = 42}

\* The record is {id: 42, date: "2012-05-09", distance_m: 8344,
\* duration_sec: 2945}.
IsPragRecord(r) ==
    /\ r.id = 42
    /\ r.date = <<2012, 5, 9>>
    /\ IsFraction(r.distance_m, 8344, 1)
    /\ r.duration_sec = Num(2945)

\* C22: when the first of the three files holds the activity 42 with
\* beginTimestamp 1336550700000, distance 834400 and duration 2945000 and
\* no other record has the id 42, the normalized list of a run that came
\* through the normalize step, and the cache file once written, hold exactly
\* one record with the id 42, and it has the date 2012-05-09, distance_m
\* 8344 and duration_sec 2945.
C22_EndToEndScenario ==
    /\ NormalizeDone =>
         /\ Cardinality(Records42(normalized)) = 1
         /\ \A j \in Records42(normalized) : IsPragRecord(normalized[j])
    /\ CacheStepPassed =>
         /\ Cardinality(Records42(cache)) = 1
         /\ \A j \in Records42(cache) : IsPragRecord(cache[j])

\* The activity 42 stood second in the first file, the other files held
\* records too, one of them a repeated id and one skipped, and the cache
\* was written with two records, the one of the activity 42 first.
C22_Witness ==
    /\ CacheStepPassed
    /\ Len(files[1].recs) = 2
    /\ files[1].recs[2] = PragRun
    /\ Len(files[2].recs) + Len(files[3].recs) = 2
    /\ Len(allRaw) > Len(unique)
    /\ skipped = 1
    /\ Len(cache) = 2
    /\ IsPragRecord(cache[1])

\* The requests the endpoint has answered.
Served == {q \in DOMAIN requests : requests[q].state # "sent"}

\* C23: the endpoint hands to the store the requested sortBy column when it
\* is in SORTABLE and the column date for any other or a missing sortBy; so
\* the column of the query is always in SORTABLE, the rows of the answer are
\* ordered by it, and a sortBy outside the list brings no error: it is
\* answered as the same request without sortBy is.
C23_SortColumnAllowListed ==
    \A q \in Served :
        LET params == requests[q].params
            listed == "sortBy" \in DOMAIN params
                        /\ \E c \in DOMAIN SORTABLE : SORTABLE[c] = params.sortBy
            column == requests[q].query.column
        IN  /\ column = (IF listed THEN params.sortBy ELSE "date")
            /\ \E c \in DOMAIN SORTABLE : SORTABLE[c] = column
            /\ requests[q].status \in {200, 500}
            /\ requests[q].status = 200 =>
                 /\ IsOrdered(requests[q].data, column,
                              requests[q].query.ascending)
                 /\ ~listed =>
                      requests[q].data \in
                          QueryResults(table, "date",
                                       requests[q].query.ascending,
                                       requests[q].query.search,
                                       requests[q].query.dateFrom,
                                       requests[q].query.dateTo)

\* A request with sortBy=name and sortDir=asc was answered with the three
\* rows in ascending order of date.
C23_Witness ==
    \E q \in Served :
        /\ "sortBy" \in DOMAIN requests[q].params
        /\ requests[q].params.sortBy = "name"
        /\ requests[q].query.ascending
        /\ requests[q].status = 200
        /\ Len(requests[q].data) = 3
        /\ requests[q].data[1].date = <<2012, 5, 9>>
        /\ requests[q].data[3].date = <<2021, 6, 15>>

\* The position holds the first record of the merged export with its id.
FirstWithId(j) == \A h \in 1..(j - 1) : allRaw[h].activityId # allRaw[j].activityId

\* The ids of the records the run has produced: the normalized list, the
\* cache file it wrote and the batches it sent.
ProducedIds ==
    Ids(Range(normalized)) \cup Ids(BatchRows)
        \cup (IF cacheWritten THEN Ids(Range(cache)) ELSE {})

\* C24: when the first record of the merged export that carries an id has no
\* usable timestamp (absent, not a number, or out of range), no record with
\* that id is in the normalized list, in the cache file the run writes or in
\* a batch, whatever timestamp a later record with the same id has.
C24_FirstOccurrenceDecides ==
    \A j \in DOMAIN allRaw :
        FirstWithId(j) /\ allRaw[j].beginTimestamp.k # "num" =>
            allRaw[j].activityId \notin ProducedIds

\* An id whose first record has no timestamp and whose second record has a
\* valid one: the run wrote the cache without it.
C24_Witness ==
    /\ CacheStepPassed
    /\ \E j, h \in DOMAIN allRaw :
         /\ j < h
         /\ FirstWithId(j)
         /\ allRaw[j].activityId = allRaw[h].activityId
         /\ allRaw[j].beginTimestamp = NoTime
         /\ allRaw[h].beginTimestamp = NewTime
         /\ allRaw[j].activityId \notin Ids(Range(cache))
    /\ Len(cache) >= 1

\* The requests that the endpoint has answered with rows.
Answered ==
    {q \in DOMAIN requests :
        requests[q].state \in {"served", "delivered"} /\ requests[q].status = 200}

\* C25: a click on the header of a sortable column sends the sort key of the
\* column as sortBy, and the endpoint orders the rows by exactly that column.
C25_SortableHeadersOrderRows ==
    \A q \in Answered : requests[q].query.column = requests[q].params.sortBy

\* The changes have stopped and every request has completed.
Settled ==
    /\ ~timer
    /\ requests # <<>>
    /\ \A q \in DOMAIN requests : requests[q].state = "delivered"

\* C26: once the changes have stopped and every request has completed, the
\* list on the screen is the response to the request issued for the latest
\* search, date range and sort, in whatever order the responses arrived.
C26_LatestRequestWins ==
    LET latest == requests[Len(requests)]
    IN  (Settled /\ latest.params = FetchParams /\ latest.status = 200)
            => (activities = latest.data /\ ~loading)

\* C27: while the panel is visible, every selected id belongs to an activity
\* of the list on the screen, so the panel shows as many activities as ids
\* are selected.
C27_SelectionWithinList ==
    (panelVisible /\ ~loading)
        => /\ \A id \in selectedIds : \E p \in DOMAIN activities : activities[p].id = id
           /\ Len(selectedActivities) = Cardinality(selectedIds)

\* C30: the focus index is null or an index of the list on the screen.
C30_FocusWithinList ==
    focusedIndex = NoFocus \/ focusedIndex[1] \in 0..(Len(activities) - 1)

\* C28: at least one column of the table is visible.
C28_SomeColumnVisible == visibleCount(columns) >= 1

\* C29: the session gate forwards a request only when the identity provider
\* confirms a user and the path is not /login, or when there is no user and
\* the path is /login; a request without a confirmed user for another path
\* is redirected to /login, and a request with a confirmed user for /login
\* is redirected to /.
C29_SessionGate ==
    \A e \in Range(exchanges) :
        LET login == e.request.pathname = <<"login">>
        IN  /\ e.response.kind = "next"
                  <=> ((e.user /\ ~login) \/ (~e.user /\ login))
            /\ e.response.kind = "next"
                  => e.response.pathname = e.request.pathname
            /\ (~e.user /\ ~login)
                  => (e.response.kind = "redirect"
                         /\ e.response.pathname = <<"login">>)
            /\ (e.user /\ login)
                  => (e.response.kind = "redirect" /\ e.response.pathname = <<>>)

\* A request for /login/reset that carries a session cookie which the
\* identity provider does not confirm has been redirected to /login, and a
\* request of a confirmed user for /login has been redirected to /.
C29_Witness ==
    /\ \E e \in Range(exchanges) :
          /\ e.request.pathname = <<"login", "reset">>
          /\ e.request.cookie
          /\ ~e.user
          /\ e.response.kind = "redirect"
          /\ e.response.pathname = <<"login">>
    /\ \E e \in Range(exchanges) :
          /\ e.request.pathname = <<"login">>
          /\ e.user
          /\ e.response.kind = "redirect"
          /\ e.response.pathname = <<>>

====
